---- MODULE Spec2Model ----
(***************************************************************************)
(* Predictify hybrid prediction-market contract: settlement engine,        *)
(* fee collection and the global reentrancy guard.                         *)
(*                                                                         *)
(* One invocation of an entry point is a transaction: when it panics, all  *)
(* of its storage writes and token transfers are discarded.  An entry      *)
(* point that makes an external call (token transfer, oracle query) is     *)
(* modelled in two steps: the step up to the external call, which leaves a *)
(* frame on `stack`, and the step in which the external call returns.      *)
(* While a frame is on the stack the callee may call back into any entry   *)
(* point of the contract.                                                  *)
(***************************************************************************)
EXTENDS Integers, Sequences, FiniteSets, TLC

\* ---------------------------------------------------------------- bounds
MaxDepth  == 1      \* invocations paused at an external call whose callee calls back
MaxGuards == 3      \* guard objects alive at once
MaxCount == 11   \* largest stored call-depth counter the guard functions are applied to
MaxFeeRecords == 1   \* fee refunds, and fee distributions, that are recorded
MaxClaims == 2      \* successful claim calls per user, and fee collections

\* ------------------------------------------------------ program constants
REENTRANCY_NOT_ENTERED   == 1
REENTRANCY_ENTERED       == 2
MAX_EXTENSION_DAYS       == 30
MAX_CALL_COUNT           == 10
PERCENTAGE_DENOMINATOR   == 100
FEE_PERCENTAGE           == 2
PLATFORM_FEE_PERCENTAGE  == 2
MARKET_CREATION_FEE      == 10000000
MIN_FEE_AMOUNT           == 1000000
MAX_FEE_AMOUNT           == 1000000000
FEE_COLLECTION_THRESHOLD == 100000000
MIN_DISPUTE_STAKE        == 10000000
SECONDS_PER_DAY          == 86400

\* ------------------------------------------------------------ input sets
ADMIN      == "adm"
Users      == {"u1", "u2"}
Addresses  == Users \cup {ADMIN}
MarketIds  == {"m1"}
Outcomes   == {"yes", "no"}
NONE       == "none"
OK         == "ok"
\* stakes a voter may offer; 0 is the rejected stake
StakeSet   == {50000024}
VoteStakes == StakeSet \cup {0}
DisputeStakes == {MIN_DISPUTE_STAKE, 0}
\* the user who raises disputes, and the outcomes the oracle's price selects
Disputers      == {"u1"}
OracleOutcomes == {"yes"}
\* settlement runs: the voters of the market and the stakes they placed
Voters       == Users \cup {"u3"}
SettleStakes == {50000024, 33333333, 100000000}
DurationDays  == {1}
\* arguments a caller may hand to create_market: the ones of the tests, and
\* every combination of valid and invalid fields
QUESTION      == "Will BTC go above $25,000 by December 31?"
OUTCOMES      == <<"yes", "no">>
Questions     == {"", QUESTION}
OutcomeLists  == {<<>>, <<"yes">>, OUTCOMES}
AnyDurationDays == {0, 1, 2, 365, 366}
OracleProviders == {"Reflector", "Pyth", "BandProtocol", "DIA"}
OracleConfigs ==
    [provider : OracleProviders, feed_id : {"", "BTC"}, threshold : {-1, 0, 2500000},
     comparison : {"gt", "lt", "eq", "ge"}]
ORACLE_CONFIG ==
    [provider |-> "Reflector", feed_id |-> "BTC", threshold |-> 2500000,
     comparison |-> "gt"]
\* ledger times at which the contract may have been initialized
LedgerTimes   == {0, SECONDS_PER_DAY, 3 * SECONDS_PER_DAY}
\* additional_days and reasons handed to extend_market_duration
AdditionalDays == {0, 15, 31}
Reasons        == {"", "low participation"}
\* fee amounts handed to refund_fee_on_error, and recipient -> amount maps
\* handed to distribute_fees_to_multiple_parties
RefundAmounts  == {-1, 0, 1000000}

\* total_staked of the markets the fee calculators are applied to
TotalStakes ==
    {0, 1, 49, 50, 99, 100, 49999999, 50000000, 50000024, 50000049, 50000050,
     62499999, 62500000, 99999999, 100000000, 100000001, 100000048, 123456789,
     500000000, 999999999, 1000000000, 1000000001, 1000000049, 1000000050,
     1999999999, 2000000000}
Distributions  ==
    {<<>>,
     [a \in {"adm"} |-> 0],
     [a \in {"adm"} |-> 1000000],
     [a \in {"adm"} |-> 1000000001],
     [a \in {"adm", "u1"} |-> IF a = "adm" THEN 1000000 ELSE 2000000]}

\* ------------------------------------------------------------- map helpers
MapGet(map, k, default) == IF k \in DOMAIN map THEN map[k] ELSE default

MapSet(map, k, v) == [x \in (DOMAIN map) \cup {k} |-> IF x = k THEN v ELSE map[x]]

MapRemove(map, k) == [x \in (DOMAIN map) \ {k} |-> map[x]]

EmptyMap == [x \in {} |-> 0]

RECURSIVE SumOver(_, _)
SumOver(map, keys) ==
    IF keys = {} THEN 0
    ELSE LET k == CHOOSE x \in keys : TRUE
         IN  map[k] + SumOver(map, keys \ {k})

\* ------------------------------------------------- i128 multiply-then-divide
\* (a * b) / c with truncating division, a, b >= 0, c > 0.  The product is
\* formed bit by bit so that no intermediate value leaves the checker's
\* integer range; the value is that of the i128 expression.  MulDivRec is
\* <<(a * b) / c, (a * b) % c>> for a < c; it takes four bits of b at a time,
\* and looks at the result for the higher bits before it adds the lower ones.
RECURSIVE MulDivRec(_, _, _)
MulDivRec(a, b, c) ==
    IF b = 0 THEN <<0, 0>>
    ELSE LET h == MulDivRec(a, b \div 16, c)
             bit(s, on) ==
                 LET r2 == 2 * s[2] + (IF on = 1 THEN a ELSE 0)
                 IN  <<2 * s[1] + (r2 \div c), r2 % c>>
         IN  IF h = <<0, 0>> /\ b % 16 = 0 THEN h
             ELSE bit(bit(bit(bit(h, (b \div 8) % 2), (b \div 4) % 2),
                          (b \div 2) % 2), b % 2)

MulDiv(a, b, c) == (a \div c) * b + MulDivRec(a % c, b, c)[1]

\* ------------------------------------------------------ i128 amounts, large
\* An amount that may exceed the checker's integers is the pair <<hi, lo>> of
\* value hi * I128_BASE + lo, with 0 <= lo < I128_BASE.  Amounts are not
\* negative, so truncating division is the floor.  Products and quotients are
\* formed eight bits at a time.  In each recursive definition the result of
\* the inner call is looked at before anything is computed from it, which
\* keeps the evaluation of a long number shallow.
I128_BASE == 1000000000

I128(n) == <<n \div I128_BASE, n % I128_BASE>>

I128_lt(x, y) == x[1] < y[1] \/ (x[1] = y[1] /\ x[2] < y[2])

I128_add(x, y) ==
    <<x[1] + y[1] + ((x[2] + y[2]) \div I128_BASE), (x[2] + y[2]) % I128_BASE>>

\* x - y, for x >= y
I128_sub(x, y) ==
    IF x[2] >= y[2] THEN <<x[1] - y[1], x[2] - y[2]>>
    ELSE <<x[1] - y[1] - 1, x[2] + (I128_BASE - y[2])>>

\* x / 256 (I128_BASE is a multiple of 256)
I128_shr8(x) == <<x[1] \div 256, (x[1] % 256) * (I128_BASE \div 256) + x[2] \div 256>>

\* x * 256
I128_shl8(x) ==
    <<x[1] * 256 + x[2] \div (I128_BASE \div 256), (x[2] % (I128_BASE \div 256)) * 256>>

\* x * k for 0 <= k <= 1000: lo is multiplied in two parts of five and four
\* decimal digits
I128_times(x, k) ==
    LET p0 == (x[2] % 100000) * k
        p1 == (x[2] \div 100000) * k + p0 \div 100000
    IN  <<x[1] * k + p1 \div 10000, (p1 % 10000) * 100000 + (p0 % 100000)>>

\* x / y for x < n * y, n <= 1000: the digit q with q * y <= x < (q + 1) * y
I128_digit(x, y, n) ==
    CHOOSE q \in 0..(n - 1) :
        /\ ~I128_lt(x, I128_times(y, q))
        /\ I128_lt(x, I128_times(y, q + 1))

\* <<x / y, x % y>>, y > 0
RECURSIVE I128_divmod(_, _)
I128_divmod(x, y) ==
    IF I128_lt(x, y) THEN <<I128(0), x>>
    ELSE LET h == I128_divmod(I128_shr8(x), y)
         IN  IF h[2] = I128(0) /\ x[2] % 256 = 0 THEN <<I128_shl8(h[1]), I128(0)>>
             ELSE LET r == I128_add(I128_shl8(h[2]), I128(x[2] % 256))
                      q == I128_digit(r, y, 256)
                  IN  <<I128_add(I128_shl8(h[1]), I128(q)),
                        I128_sub(r, I128_times(y, q))>>

RECURSIVE I128_mul(_, _)
I128_mul(x, y) ==
    IF y = I128(0) THEN I128(0)
    ELSE LET h == I128_mul(x, I128_shr8(y))
         IN  IF h = I128(0) THEN I128_times(x, y[2] % 256)
             ELSE I128_add(I128_shl8(h), I128_times(x, y[2] % 256))

\* <<(x * y) / z, (x * y) % z>> for x < z
RECURSIVE I128_muldivmod(_, _, _)
I128_muldivmod(x, y, z) ==
    IF y = I128(0) THEN <<I128(0), I128(0)>>
    ELSE LET h == I128_muldivmod(x, I128_shr8(y), z)
         IN  IF h[2] = I128(0) /\ y[2] % 256 = 0 THEN <<I128_shl8(h[1]), I128(0)>>
             ELSE LET r == I128_add(I128_shl8(h[2]), I128_times(x, y[2] % 256))
                      q == I128_digit(r, z, 512)
                  IN  <<I128_add(I128_shl8(h[1]), I128(q)),
                        I128_sub(r, I128_times(z, q))>>

\* (x * y) / z as the i128 expression computes it, z > 0
I128_muldiv(x, y, z) ==
    IF I128_lt(x, z) THEN I128_muldivmod(x, y, z)[1]
    ELSE LET d == I128_divmod(x, z)
         IN  IF d[2] = I128(0) THEN I128_mul(d[1], y)
             ELSE I128_add(I128_mul(d[1], y), I128_muldivmod(d[2], y, z)[1])

\* --------------------------------------------------------- reentrancy guard
\* The guard's storage is the pair (REENT_ST, CALL_CNT), here the record
\* [status, count]; a ReentrancyGuard object carries the flag is_active.
validate_no_reentrancy(gs) ==
    IF gs.status = REENTRANCY_ENTERED THEN "ReentrancyAttack" ELSE OK

new(gs) ==
    IF gs.status = REENTRANCY_ENTERED THEN "ReentrancyAttack" ELSE OK

increment_call_count(gs) == [gs EXCEPT !.count = gs.count + 1]

decrement_call_count(gs) ==
    IF gs.count > 0 THEN [gs EXCEPT !.count = gs.count - 1] ELSE gs

\* reset_call_state that takes one call off the counter instead of clearing it.
reset_call_state_decrements(gs) ==
    [status |-> REENTRANCY_NOT_ENTERED,
     count |-> IF gs.count > 0 THEN gs.count - 1 ELSE 0]

reset_call_state(gs) == [status |-> REENTRANCY_NOT_ENTERED, count |-> 0]

\* check_reentrancy_state without the MAX_CALL_COUNT ceiling.
check_reentrancy_state_no_ceiling(gs) ==
    IF gs.status # REENTRANCY_ENTERED THEN "InconsistentReentrancyState"
    ELSE OK

check_reentrancy_state(gs) ==
    IF gs.status # REENTRANCY_ENTERED THEN "InconsistentReentrancyState"
    ELSE IF gs.count > MAX_CALL_COUNT THEN "CallStackOverflow"
    ELSE OK

\* before_external_call without the write of REENTRANCY_ENTERED.
before_external_call_no_lock(gs, is_active) ==
    IF gs.status = REENTRANCY_ENTERED
    THEN [err |-> "ReentrancyAttack", gs |-> gs, is_active |-> is_active]
    ELSE [err |-> OK, gs |-> increment_call_count(gs), is_active |-> TRUE]

\* result: [err, gs, is_active]
before_external_call(gs, is_active) ==
    IF gs.status = REENTRANCY_ENTERED
    THEN [err |-> "ReentrancyAttack", gs |-> gs, is_active |-> is_active]
    ELSE [err |-> OK,
          gs |-> increment_call_count([gs EXCEPT !.status = REENTRANCY_ENTERED]),
          is_active |-> TRUE]

\* after_external_call without the final write of REENTRANCY_NOT_ENTERED on
\* the success path.
after_external_call_keeps_lock(gs, is_active, success) ==
    IF ~is_active
    THEN [err |-> "InvalidReentrancyState", gs |-> gs, is_active |-> is_active]
    ELSE IF check_reentrancy_state(gs) # OK
    THEN [err |-> check_reentrancy_state(gs), gs |-> gs, is_active |-> is_active]
    ELSE [err |-> OK,
          gs |-> IF success THEN decrement_call_count(gs) ELSE reset_call_state(gs),
          is_active |-> FALSE]

\* after_external_call that resets the stored guard state before it looks at
\* is_active.
after_external_call_resets_first(gs, is_active, success) ==
    IF ~is_active
    THEN [err |-> "InvalidReentrancyState", gs |-> reset_call_state(gs),
          is_active |-> is_active]
    ELSE IF check_reentrancy_state(gs) # OK
    THEN [err |-> check_reentrancy_state(gs), gs |-> gs, is_active |-> is_active]
    ELSE LET g1 == IF success THEN decrement_call_count(gs)
                   ELSE reset_call_state(gs)
         IN  [err |-> OK,
              gs |-> [g1 EXCEPT !.status = REENTRANCY_NOT_ENTERED],
              is_active |-> FALSE]

after_external_call(gs, is_active, success) ==
    IF ~is_active
    THEN [err |-> "InvalidReentrancyState", gs |-> gs, is_active |-> is_active]
    ELSE IF check_reentrancy_state(gs) # OK
    THEN [err |-> check_reentrancy_state(gs), gs |-> gs, is_active |-> is_active]
    ELSE LET g1 == IF success THEN decrement_call_count(gs)
                   ELSE reset_call_state(gs)
         IN  [err |-> OK,
              gs |-> [g1 EXCEPT !.status = REENTRANCY_NOT_ENTERED],
              is_active |-> FALSE]

\* protect_external_call as one function: new, before_external_call, the
\* wrapped operation (success says whether it returned Ok), after_external_call.
\* result: [err, gs], gs being the stored guard state the function leaves.
protect_external_call(gs, success) ==
    IF new(gs) # OK THEN [err |-> new(gs), gs |-> gs]
    ELSE LET b == before_external_call(gs, FALSE)
         IN  IF b.err # OK THEN [err |-> b.err, gs |-> b.gs]
             ELSE LET a == after_external_call(b.gs, b.is_active, success)
                  IN  IF a.err # OK THEN [err |-> a.err, gs |-> a.gs]
                      ELSE [err |-> IF success THEN OK ELSE "OperationError",
                            gs |-> a.gs]

\* protect_external_call that runs the operation without before_external_call.
protect_external_call_enter_unheld(gs) ==
    IF new(gs) # OK
    THEN [err |-> new(gs), gs |-> gs, is_active |-> FALSE]
    ELSE [err |-> OK, gs |-> gs, is_active |-> FALSE]

\* protect_external_call up to the start of the wrapped operation:
\* ReentrancyGuard::new, then before_external_call on the fresh guard.
protect_external_call_enter(gs) ==
    IF new(gs) # OK
    THEN [err |-> new(gs), gs |-> gs, is_active |-> FALSE]
    ELSE before_external_call(gs, FALSE)

\* ---------------------------------------------------------------- fee engine
Ok(v)  == [err |-> OK, val |-> v]
Err(e) == [err |-> e, val |-> 0]

\* calculate_platform_fee without the MIN_FEE_AMOUNT floor.
calculate_platform_fee_no_minimum(market) ==
    IF market.total_staked = 0 THEN Err("NoFeesToCollect")
    ELSE Ok(MulDiv(market.total_staked, PLATFORM_FEE_PERCENTAGE, 100))

calculate_platform_fee(market) ==
    IF market.total_staked = 0 THEN Err("NoFeesToCollect")
    ELSE LET fee_amount == MulDiv(market.total_staked, PLATFORM_FEE_PERCENTAGE, 100)
         IN  IF fee_amount < MIN_FEE_AMOUNT THEN Err("InsufficientStake")
             ELSE Ok(fee_amount)

calculate_dynamic_fee(market) ==
    LET base_fee == calculate_platform_fee(market)
        size_multiplier == IF market.total_staked > 1000000000 THEN 80
                           ELSE IF market.total_staked > 100000000 THEN 90
                           ELSE 100
        adjusted_fee == MulDiv(base_fee.val, size_multiplier, 100)
    IN  IF base_fee.err # OK THEN base_fee
        ELSE IF adjusted_fee < MIN_FEE_AMOUNT THEN Ok(MIN_FEE_AMOUNT)
        ELSE Ok(adjusted_fee)

\* calculate_user_payout_after_fees taking the fee off the stake before the
\* pool share is computed.
calculate_user_payout_fee_first(user_stake, winning_total, total_pool) ==
    IF winning_total = 0 THEN Err("NothingToClaim")
    ELSE Ok(MulDiv(MulDiv(user_stake, 100 - PLATFORM_FEE_PERCENTAGE, 100),
                   total_pool, winning_total))

\* calculate_user_payout_after_fees without the fee reduction.
calculate_user_payout_no_fee(user_stake, winning_total, total_pool) ==
    IF winning_total = 0 THEN Err("NothingToClaim")
    ELSE Ok(MulDiv(user_stake, total_pool, winning_total))

calculate_user_payout_after_fees(user_stake, winning_total, total_pool) ==
    IF winning_total = 0 THEN Err("NothingToClaim")
    ELSE LET base_payout == MulDiv(user_stake, total_pool, winning_total)
             payout == MulDiv(base_payout, 100 - PLATFORM_FEE_PERCENTAGE, 100)
         IN  Ok(payout)

\* The same function on amounts beyond the checker's integers, taking the fee
\* off the stake before the pool share is computed.
calculate_user_payout_fee_first_i128(user_stake, winning_total, total_pool) ==
    IF winning_total = I128(0) THEN Err("NothingToClaim")
    ELSE Ok(I128_muldiv(I128_muldiv(user_stake, I128(100 - PLATFORM_FEE_PERCENTAGE),
                                    I128(100)),
                        total_pool, winning_total))

\* calculate_user_payout_after_fees on amounts beyond the checker's integers
calculate_user_payout_after_fees_i128(user_stake, winning_total, total_pool) ==
    IF winning_total = I128(0) THEN Err("NothingToClaim")
    ELSE LET base_payout == I128_muldiv(user_stake, total_pool, winning_total)
             payout == I128_muldiv(base_payout, I128(100 - PLATFORM_FEE_PERCENTAGE),
                                   I128(100))
         IN  Ok(payout)

validate_admin_permissions(stored_admin, caller) ==
    IF stored_admin = NONE THEN "Unauthorized"
    ELSE IF caller # stored_admin THEN "Unauthorized"
    ELSE OK

\* validate_market_for_fee_collection without the fee_collected check.
validate_market_for_fee_collection_any_flag(market) ==
    IF market.winning_outcome = NONE THEN "MarketNotResolved"
    ELSE IF market.total_staked < FEE_COLLECTION_THRESHOLD THEN "InsufficientStake"
    ELSE OK

validate_market_for_fee_collection(market) ==
    IF market.winning_outcome = NONE THEN "MarketNotResolved"
    ELSE IF market.fee_collected THEN "FeeAlreadyCollected"
    ELSE IF market.total_staked < FEE_COLLECTION_THRESHOLD THEN "InsufficientStake"
    ELSE OK

validate_fee_amount(fee_amount) ==
    IF fee_amount < MIN_FEE_AMOUNT THEN "InsufficientStake"
    ELSE IF fee_amount > MAX_FEE_AMOUNT THEN "InvalidInput"
    ELSE OK

\* calculate_platform_fee, validate_market_for_fee_collection and
\* validate_fee_amount on amounts beyond the checker's integers
calculate_platform_fee_i128(market) ==
    IF market.total_staked = I128(0) THEN Err("NoFeesToCollect")
    ELSE LET fee_amount == I128_muldiv(market.total_staked,
                                       I128(PLATFORM_FEE_PERCENTAGE), I128(100))
         IN  IF I128_lt(fee_amount, I128(MIN_FEE_AMOUNT)) THEN Err("InsufficientStake")
             ELSE Ok(fee_amount)

validate_market_for_fee_collection_i128(market) ==
    IF market.winning_outcome = NONE THEN "MarketNotResolved"
    ELSE IF market.fee_collected THEN "FeeAlreadyCollected"
    ELSE IF I128_lt(market.total_staked, I128(FEE_COLLECTION_THRESHOLD))
    THEN "InsufficientStake"
    ELSE OK

validate_fee_amount_i128(fee_amount) ==
    IF I128_lt(fee_amount, I128(MIN_FEE_AMOUNT)) THEN "InsufficientStake"
    ELSE IF I128_lt(I128(MAX_FEE_AMOUNT), fee_amount) THEN "InvalidInput"
    ELSE OK

validate_creation_fee(fee_amount) ==
    IF fee_amount # MARKET_CREATION_FEE THEN "InvalidInput" ELSE OK

\* ------------------------------------------------------------ market record
\* Market::new: a market as stored by create_market.
Market_new(market_admin, end_time, state) ==
    [admin           |-> market_admin,
     end_time        |-> end_time,
     oracle_result   |-> NONE,
     votes           |-> EmptyMap,
     stakes          |-> EmptyMap,
     claimed         |-> EmptyMap,
     total_staked    |-> 0,
     dispute_stakes  |-> EmptyMap,
     winning_outcome |-> NONE,
     fee_collected   |-> FALSE,
     state           |-> state,
     total_extension_days |-> 0]

\* is_active with the deadline itself still counted as open.
is_active_through_end_time(market, current_time) == current_time <= market.end_time

is_active(market, current_time) == current_time < market.end_time

\* has_ended that holds from the day before the deadline.
has_ended_a_day_early(market, current_time) ==
    current_time + SECONDS_PER_DAY >= market.end_time

has_ended(market, current_time) == current_time >= market.end_time

\* add_vote that records the vote and the stake and leaves total_staked alone.
add_vote_keeps_total(market, user, outcome, stake) ==
    [market EXCEPT !.votes = MapSet(market.votes, user, outcome),
                   !.stakes = MapSet(market.stakes, user, stake)]

add_vote(market, user, outcome, stake) ==
    [market EXCEPT !.votes = MapSet(market.votes, user, outcome),
                   !.stakes = MapSet(market.stakes, user, stake),
                   !.total_staked = market.total_staked + stake]

is_resolved(market) == market.winning_outcome # NONE

\* MarketState: the values of the enum.
MarketState == {"Active", "Ended", "Resolved", "Closed", "Disputed", "Cancelled"}

\* from_market that looks at the deadline before the resolution.
MarketState_from_market_deadline_first(market, current_time) ==
    IF has_ended(market, current_time) THEN "Ended"
    ELSE IF is_resolved(market) THEN "Resolved"
    ELSE "Active"

\* MarketState::from_market
MarketState_from_market(market, current_time) ==
    IF is_resolved(market) THEN "Resolved"
    ELSE IF has_ended(market, current_time) THEN "Ended"
    ELSE "Active"

total_dispute_stakes(market) ==
    SumOver(market.dispute_stakes, DOMAIN market.dispute_stakes)

\* calculate_end_time that leaves out the ledger timestamp.
calculate_end_time_without_now(current_time, duration_days) ==
    duration_days * SECONDS_PER_DAY

calculate_end_time(current_time, duration_days) ==
    current_time + duration_days * SECONDS_PER_DAY

\* Total stake behind `outcome` (the loop of process_winnings_claim).
winning_total_of(market, outcome) ==
    SumOver([v \in DOMAIN market.votes |-> MapGet(market.stakes, v, 0)],
            {v \in DOMAIN market.votes : market.votes[v] = outcome})

\* ------------------------------------------------------------------- state
VARIABLES
    now,        \* env.ledger().timestamp()
    admin,      \* persistent storage key "Admin"
    markets,    \* persistent storage: market id -> Market, for the stored ids
    created,    \* market ids handed out so far
    guard,      \* instance storage keys REENT_ST and CALL_CNT
    fee_hist,   \* persistent key "fee_hist": sequence of FeeCollection records
    tot_fees,   \* persistent key "tot_fees"
    fee_ref,    \* persistent key "fee_ref": sequence of FeeRefund records
    refund_a,   \* persistent keys "refund_a" (total refunded) and "refund_t"
    dist_hist,  \* persistent key "dist_hist": FeeDistributionExecution records
    creat_fee,  \* persistent key "creat_fee"
    paid,       \* token ledger: claim payouts transferred, per market and user
    fee_paid,   \* token ledger: platform fees transferred to the admin, per market
    claims_ok,  \* number of claim calls that returned Ok, per market and user
    stack       \* invocations paused at an external call, innermost last

vars == <<now, admin, markets, created, guard, fee_hist, tot_fees, creat_fee,
          paid, fee_paid, claims_ok, stack, fee_ref, refund_a, dist_hist>>

\* Everything a panicking invocation rolls back.
Storage ==
    [admin |-> admin, markets |-> markets, created |-> created, guard |-> guard,
     fee_hist |-> fee_hist, tot_fees |-> tot_fees, creat_fee |-> creat_fee,
     paid |-> paid, fee_paid |-> fee_paid, claims_ok |-> claims_ok,
     fee_ref |-> fee_ref, refund_a |-> refund_a, dist_hist |-> dist_hist]

SetStorage(s) ==
    /\ admin' = s.admin
    /\ markets' = s.markets
    /\ created' = s.created
    /\ guard' = s.guard
    /\ fee_hist' = s.fee_hist
    /\ tot_fees' = s.tot_fees
    /\ creat_fee' = s.creat_fee
    /\ paid' = s.paid
    /\ fee_paid' = s.fee_paid
    /\ claims_ok' = s.claims_ok
    /\ fee_ref' = s.fee_ref
    /\ refund_a' = s.refund_a
    /\ dist_hist' = s.dist_hist

\* A frame is sealed when its external call makes no call back: the callee of
\* the MaxDepth innermost open frames may re-enter the contract, the callee of
\* a call made from within such a callback does not.
Frame(op, caller, m, arg, amount, active, snap) ==
    [op |-> op, caller |-> caller, market |-> m, arg |-> arg, amount |-> amount,
     is_active |-> active, snap |-> snap, saved |-> Storage,
     sealed |-> Len(stack) >= MaxDepth]

Depth == Len(stack)

Top == stack[Len(stack)]

Pop == SubSeq(stack, 1, Len(stack) - 1)

\* An entry point can be invoked from outside when nothing is in flight, and
\* by the callee of the innermost paused invocation otherwise.
CanCall == IF stack = <<>> THEN TRUE ELSE ~Top.sealed

NoSnap == Market_new(NONE, 0, NONE)

Init ==
    /\ now = 0
    /\ admin = ADMIN
    /\ markets = [m \in {} |-> NoSnap]
    /\ created = {}
    /\ guard = [status |-> REENTRANCY_NOT_ENTERED, count |-> 0]
    /\ fee_hist = <<>>
    /\ fee_ref = <<>>
    /\ refund_a = [total |-> 0, timestamp |-> 0]
    /\ dist_hist = <<>>
    /\ tot_fees = 0
    /\ creat_fee = 0
    /\ paid = [m \in MarketIds |-> [u \in Users |-> 0]]
    /\ fee_paid = [m \in MarketIds |-> 0]
    /\ claims_ok = [m \in MarketIds |-> [u \in Users |-> 0]]
    /\ stack = <<>>

\* ------------------------------------------------------ invocation outcomes
\* The invocation panics or returns Err(e) before any external call: nothing
\* it wrote survives.
Fails(e) == UNCHANGED vars

\* The invocation reaches its external call and waits for it.
Pauses(frame, gs, mk) ==
    /\ stack' = Append(stack, frame)
    /\ guard' = gs
    /\ markets' = mk
    /\ UNCHANGED <<now, admin, created, fee_hist, fee_ref, refund_a, dist_hist, tot_fees, creat_fee,
                   paid, fee_paid, claims_ok>>

\* The paused invocation on top of the stack panics: the state is the one it
\* started from.
Aborts(e) ==
    /\ SetStorage(Top.saved)
    /\ stack' = Pop
    /\ UNCHANGED now

\* A guarded entry point (vote, claim_winnings, dispute_result,
\* fetch_oracle_result) up to the external call of its wrapped operation:
\* validate_no_reentrancy, then protect_external_call around the operation,
\* whose validation result is bodyErr.  OK: the call is reached with the guard
\* held; otherwise the error the invocation ends with.
GuardedEntryResult(bodyErr) ==
    LET v == validate_no_reentrancy(guard)
        g == protect_external_call_enter(guard)
    IN  IF v # OK THEN v
        ELSE IF g.err # OK THEN g.err
        ELSE IF bodyErr # OK
        THEN LET a == after_external_call(g.gs, g.is_active, FALSE)
             IN  IF a.err # OK THEN a.err ELSE bodyErr
        ELSE OK

GuardedEntry(op, caller, m, arg, amount, bodyErr) ==
    LET r == GuardedEntryResult(bodyErr)
        g == protect_external_call_enter(guard)
    IN  IF r # OK THEN Fails(r)
        ELSE Pauses(Frame(op, caller, m, arg, amount, g.is_active, markets[m]),
                    g.gs, markets)

\* The wrapped operation of the guarded frame on top of the stack returned
\* Ok after writing market record mk: after_external_call(true).
GuardedReturn(mk, val) ==
    LET a == after_external_call(guard, Top.is_active, TRUE)
    IN  IF a.err # OK THEN Aborts(a.err)
        ELSE /\ guard' = a.gs
             /\ markets' = MapSet(markets, Top.market, mk)
             /\ stack' = Pop

\* The ledger clock moves between invocations.  The contract reads it only to
\* compare it with a market's end_time, so it is advanced while some stored
\* market has not ended.
advance_time ==
    /\ stack = <<>>
    /\ \E m \in DOMAIN markets : now < markets[m].end_time
    /\ now' = now + SECONDS_PER_DAY
    /\ UNCHANGED <<admin, markets, created, guard, fee_hist, fee_ref, refund_a, dist_hist, tot_fees, creat_fee,
                   paid, fee_paid, claims_ok, stack>>

\* ------------------------------------------------------------ create_market
\* MarketCreator::create_market: parameter validation, a fresh market id, and
\* the market stored Active.
OracleProvider_is_supported(provider) == provider \in {"Reflector", "Pyth"}

OracleConfig_validate(oracle_config) ==
    IF oracle_config.threshold <= 0 THEN "InvalidThreshold"
    ELSE IF oracle_config.comparison \notin {"gt", "lt", "eq"} THEN "InvalidInput"
    ELSE IF oracle_config.feed_id = "" THEN "InvalidOracleFeed"
    ELSE IF ~OracleProvider_is_supported(oracle_config.provider) THEN "InvalidConfig"
    ELSE OK

\* MarketCreationParams::validate that accepts any number of outcomes.
MarketCreationParams_validate_any_outcomes(question, outcomes, duration_days, oracle_config) ==
    IF question = "" THEN "InvalidInput"
    ELSE IF duration_days = 0 \/ duration_days > 365 THEN "InvalidInput"
    ELSE OracleConfig_validate(oracle_config)

MarketCreationParams_validate(question, outcomes, duration_days, oracle_config) ==
    IF question = "" THEN "InvalidInput"
    ELSE IF Len(outcomes) < 2 THEN "InvalidOutcome"
    ELSE IF duration_days = 0 \/ duration_days > 365 THEN "InvalidInput"
    ELSE OracleConfig_validate(oracle_config)

MarketCreator_create_market(caller, question, outcomes, duration_days, oracle_config) ==
    IF MarketCreationParams_validate(question, outcomes, duration_days, oracle_config) # OK
    THEN Err(MarketCreationParams_validate(question, outcomes, duration_days,
                                           oracle_config))
    ELSE IF MarketIds \ created = {} THEN Err("InternalError")
    ELSE Ok(CHOOSE m \in MarketIds \ created : TRUE)

\* What create_market answers before its creation-fee transfer.
create_market_check(caller, question, outcomes, duration_days, oracle_config) ==
    IF admin = NONE THEN Err("AdminNotSet")
    ELSE IF caller # admin THEN Err("Unauthorized")
    ELSE IF MarketCreator_create_market(caller, question, outcomes, duration_days,
                                        oracle_config).err # OK
    THEN MarketCreator_create_market(caller, question, outcomes, duration_days,
                                     oracle_config)
    ELSE IF validate_creation_fee(MARKET_CREATION_FEE) # OK
    THEN Err(validate_creation_fee(MARKET_CREATION_FEE))
    ELSE MarketCreator_create_market(caller, question, outcomes, duration_days,
                                     oracle_config)

\* Up to the creation-fee transfer of process_creation_fee.
create_market(caller, question, outcomes, duration_days, oracle_config) ==
    LET r == create_market_check(caller, question, outcomes, duration_days,
                                 oracle_config)
        m == r.val
        mk == MapSet(markets, m,
                     Market_new(caller, calculate_end_time(now, duration_days), "Active"))
    IN  /\ CanCall
        /\ MarketIds \ created # {}
        /\ IF r.err # OK THEN Fails(r.err)
           ELSE /\ stack' = Append(stack, Frame("create_market", caller, m, NONE,
                                                MARKET_CREATION_FEE, FALSE, mk[m]))
                /\ markets' = mk
                /\ created' = created \cup {m}
                /\ UNCHANGED <<now, admin, guard, fee_hist, fee_ref, refund_a, dist_hist, tot_fees, creat_fee,
                               paid, fee_paid, claims_ok>>

\* The creation-fee transfer returns; record_creation_fee.
create_market_return(transfer_ok) ==
    /\ stack # <<>>
    /\ Top.op = "create_market"
    /\ IF ~transfer_ok THEN Aborts("TransferFailed")
       ELSE /\ creat_fee' = creat_fee + Top.amount
            /\ stack' = Pop
            /\ UNCHANGED <<now, admin, markets, created, guard, fee_hist, fee_ref, refund_a, dist_hist, tot_fees,
                           paid, fee_paid, claims_ok>>

\* VoteParams::validate without the check for an existing vote.
VoteParams_validate_no_vote_check(market, user, outcome, stake) ==
    IF outcome \notin Outcomes THEN "InvalidOutcome"
    ELSE IF stake <= 0 THEN "InsufficientStake"
    ELSE OK

\* VoteParams::validate; market.outcomes is Outcomes for every market.
VoteParams_validate(market, user, outcome, stake) ==
    IF outcome \notin Outcomes THEN "InvalidOutcome"
    ELSE IF stake <= 0 THEN "InsufficientStake"
    ELSE IF user \in DOMAIN market.votes THEN "AlreadyVoted"
    ELSE OK

\* --------------------------------------------------------------------- vote
\* VotingManager::process_vote up to the stake transfer.
process_vote_check(m, user, outcome, stake) ==
    IF m \notin DOMAIN markets THEN "MarketNotFound"
    ELSE IF ~is_active(markets[m], now) THEN "MarketClosed"
    ELSE IF outcome \notin Outcomes THEN "InvalidOutcome"
    ELSE IF user \in DOMAIN markets[m].votes THEN "AlreadyVoted"
    ELSE IF stake <= 0 THEN "InsufficientStake"
    ELSE OK

vote_result(user, m, outcome, stake) ==
    GuardedEntryResult(process_vote_check(m, user, outcome, stake))

vote(user, m, outcome, stake) ==
    /\ CanCall
    /\ GuardedEntry("vote", user, m, outcome, stake,
                    process_vote_check(m, user, outcome, stake))

\* The stake transfer returns; the vote is recorded in the market read before
\* the transfer and the record is written back.
vote_return(transfer_ok) ==
    /\ stack # <<>>
    /\ Top.op = "vote"
    /\ IF ~transfer_ok THEN Aborts("TransferFailed")
       ELSE /\ GuardedReturn(add_vote(Top.snap, Top.caller, Top.arg, Top.amount), 0)
            /\ UNCHANGED <<now, admin, created, fee_hist, fee_ref, refund_a, dist_hist, tot_fees, creat_fee,
                           paid, fee_paid, claims_ok>>

\* ------------------------------------------------------ fetch_oracle_result
\* OracleResolutionManager::fetchoracle_result up to the oracle query.
fetchoracle_result_check(m) ==
    IF m \notin DOMAIN markets THEN "MarketNotFound"
    ELSE IF ~has_ended(markets[m], now) THEN "MarketClosed"
    ELSE IF markets[m].oracle_result # NONE THEN "MarketAlreadyResolved"
    ELSE OK

fetch_oracle_result_result(m) ==
    GuardedEntryResult(fetchoracle_result_check(m))

fetch_oracle_result(m, oracle_contract) ==
    /\ CanCall
    /\ GuardedEntry("fetch_oracle_result", oracle_contract, m, NONE, 0,
                    fetchoracle_result_check(m))

\* The oracle query returns: no data, or a price whose comparison with the
\* threshold selects `outcome`, stored as oracle_result.
fetch_oracle_result_return(outcome) ==
    /\ stack # <<>>
    /\ Top.op = "fetch_oracle_result"
    /\ IF outcome = NONE THEN Aborts("OracleUnavailable")
       ELSE /\ GuardedReturn([Top.snap EXCEPT !.oracle_result = outcome], 0)
            /\ UNCHANGED <<now, admin, created, fee_hist, fee_ref, refund_a, dist_hist, tot_fees, creat_fee,
                           paid, fee_paid, claims_ok>>

\* ----------------------------------------------------- get_resolution_state
\* ResolutionUtils::get_resolution_state: the resolution state of a stored
\* market.
ResolutionUtils_get_resolution_state(market) ==
    IF total_dispute_stakes(market) > 0 THEN "Disputed"
    ELSE IF market.winning_outcome # NONE THEN "MarketResolved"
    ELSE IF market.oracle_result # NONE THEN "OracleResolved"
    ELSE "Active"

\* PredictifyHybrid::get_resolution_state on the stored markets mk: a market
\* that get_market does not find is reported Active.
get_resolution_state(mk, m) ==
    IF m \in DOMAIN mk THEN ResolutionUtils_get_resolution_state(mk[m])
    ELSE "Active"

\* ----------------------------------------------------------- resolve_market
\* MarketResolutionManager::resolve_market: the oracle result decides.
MarketResolutionManager_resolve_market(m) ==
    IF m \notin DOMAIN markets THEN Err("MarketNotFound")
    ELSE IF now < markets[m].end_time THEN Err("MarketClosed")
    ELSE IF markets[m].winning_outcome # NONE THEN Err("MarketAlreadyResolved")
    ELSE IF markets[m].oracle_result = NONE THEN Err("OracleUnavailable")
    ELSE Ok(markets[m].oracle_result)

\* resolve_market that resolves to the first outcome when no oracle result
\* has been recorded.
resolve_market_default_outcome(m) ==
    LET r == MarketResolutionManager_resolve_market(m)
    IN  IF ~CanCall THEN FALSE
        ELSE IF r.err # OK /\ r.err # "OracleUnavailable" THEN Fails(r.err)
        ELSE /\ markets' = [markets EXCEPT
                               ![m].winning_outcome =
                                   IF r.err = OK THEN r.val ELSE "yes",
                               ![m].state = "Resolved"]
             /\ UNCHANGED <<now, admin, created, guard, fee_hist, fee_ref, refund_a, dist_hist, tot_fees,
                            creat_fee, paid, fee_paid, claims_ok, stack>>

resolve_market(m) ==
    LET r == MarketResolutionManager_resolve_market(m)
    IN  IF ~CanCall THEN FALSE
        ELSE IF r.err # OK THEN Fails(r.err)
        ELSE /\ markets' = [markets EXCEPT ![m].winning_outcome = r.val,
                                           ![m].state = "Resolved"]
             /\ UNCHANGED <<now, admin, created, guard, fee_hist, fee_ref, refund_a, dist_hist, tot_fees,
                            creat_fee, paid, fee_paid, claims_ok, stack>>

\* MarketStateManager::remove_market
remove_market(mk, m) == MapRemove(mk, m)

resolve_market_manual(caller, m, winning_outcome) ==
    IF ~CanCall THEN FALSE
    ELSE IF admin = NONE THEN Fails("AdminNotSet")
    ELSE IF caller # admin THEN Fails("Unauthorized")
    ELSE /\ markets' = remove_market(markets, m)
         /\ UNCHANGED <<now, admin, created, guard, fee_hist, fee_ref, refund_a, dist_hist, tot_fees,
                        creat_fee, paid, fee_paid, claims_ok, stack>>

\* ----------------------------------------------------------- claim_winnings
\* VotingManager::process_claim up to the payout transfer.
process_claim_check(m, user) ==
    IF m \notin DOMAIN markets THEN "MarketNotFound"
    ELSE IF markets[m].winning_outcome = NONE THEN "MarketNotResolved"
    ELSE IF MapGet(markets[m].claimed, user, FALSE) THEN "AlreadyClaimed"
    ELSE IF user \notin DOMAIN markets[m].votes THEN "NothingToClaim"
    ELSE IF markets[m].votes[user] # markets[m].winning_outcome THEN "NothingToClaim"
    ELSE calculate_user_payout_after_fees(
             MapGet(markets[m].stakes, user, 0),
             winning_total_of(markets[m], markets[m].winning_outcome),
             markets[m].total_staked).err

process_claim_payout(market, user) ==
    calculate_user_payout_after_fees(
        MapGet(market.stakes, user, 0),
        winning_total_of(market, market.winning_outcome),
        market.total_staked).val

claim_winnings_result(user, m) ==
    GuardedEntryResult(process_claim_check(m, user))

claim_winnings(user, m) ==
    /\ CanCall
    /\ GuardedEntry("claim_winnings", user, m, NONE,
                    process_claim_payout(markets[m], user),
                    process_claim_check(m, user))

\* The payout transfer returns; claimed[user] is set in the market read
\* before the transfer and the record is written back.
claim_winnings_return(transfer_ok) ==
    /\ stack # <<>>
    /\ Top.op = "claim_winnings"
    /\ IF ~transfer_ok THEN Aborts("TransferFailed")
       ELSE LET a == after_external_call(guard, Top.is_active, TRUE)
            IN  /\ GuardedReturn([Top.snap EXCEPT
                                      !.claimed = MapSet(Top.snap.claimed, Top.caller, TRUE)],
                                 Top.amount)
                /\ IF a.err # OK THEN TRUE
                   ELSE /\ claims_ok[Top.market][Top.caller] < MaxClaims
                        /\ paid' = [paid EXCEPT ![Top.market][Top.caller] = @ + Top.amount]
                        /\ claims_ok' = [claims_ok EXCEPT ![Top.market][Top.caller] = @ + 1]
                        /\ UNCHANGED <<now, admin, created, fee_hist, fee_ref, refund_a, dist_hist, tot_fees,
                                       creat_fee, fee_paid>>

\* The payout process_winnings_claim returns for a winner.
process_winnings_claim_payout(market, user) ==
    LET user_stake == MapGet(market.stakes, user, 0)
        winning_total == winning_total_of(market, market.winning_outcome)
        user_share == MulDiv(user_stake, PERCENTAGE_DENOMINATOR - FEE_PERCENTAGE,
                             PERCENTAGE_DENOMINATOR)
        total_pool == market.total_staked
    IN  MulDiv(user_share, total_pool, winning_total)

\* PredictifyHybrid::process_winnings_claim
process_winnings_claim(user, m) ==
    IF ~CanCall THEN FALSE
    ELSE IF m \notin DOMAIN markets
    THEN Fails("MarketNotFound")
    ELSE LET market == markets[m]
             winning_outcome == market.winning_outcome
             user_stake == MapGet(market.stakes, user, 0)
             winning_total == winning_total_of(market, winning_outcome)
             user_share == MulDiv(user_stake, PERCENTAGE_DENOMINATOR - FEE_PERCENTAGE,
                                  PERCENTAGE_DENOMINATOR)
             total_pool == market.total_staked
             payout == MulDiv(user_share, total_pool, winning_total)
         IN  IF winning_outcome = NONE
             THEN Fails("MarketNotResolved")
             ELSE IF user \notin DOMAIN market.votes
             THEN Fails("NothingToClaim")
             ELSE IF market.votes[user] = winning_outcome /\ winning_total > 0
             THEN /\ claims_ok[m][user] < MaxClaims
                  /\ markets' = [markets EXCEPT
                                     ![m].claimed = MapSet(market.claimed, user, TRUE)]
                  /\ claims_ok' = [claims_ok EXCEPT ![m][user] = @ + 1]
                  /\ UNCHANGED <<now, admin, created, guard, fee_hist, fee_ref, refund_a, dist_hist, tot_fees,
                                 creat_fee, paid, fee_paid, stack>>
             ELSE Fails("NothingToClaim")

\* ------------------------------------------------------------ dispute_result
\* DisputeManager::process_dispute up to the dispute-stake transfer.
process_dispute_check(m, user, stake) ==
    IF m \notin DOMAIN markets THEN "MarketNotFound"
    ELSE IF markets[m].winning_outcome = NONE THEN "MarketNotResolved"
    ELSE IF user \in DOMAIN markets[m].dispute_stakes THEN "AlreadyDisputed"
    ELSE IF stake < MIN_DISPUTE_STAKE THEN "InsufficientStake"
    ELSE OK

dispute_result_result(user, m, stake) ==
    GuardedEntryResult(process_dispute_check(m, user, stake))

dispute_result(user, m, stake) ==
    /\ CanCall
    /\ GuardedEntry("dispute_result", user, m, NONE, stake,
                    process_dispute_check(m, user, stake))

dispute_result_return(transfer_ok) ==
    /\ stack # <<>>
    /\ Top.op = "dispute_result"
    /\ IF ~transfer_ok THEN Aborts("TransferFailed")
       ELSE /\ GuardedReturn([Top.snap EXCEPT
                                  !.dispute_stakes =
                                      MapSet(Top.snap.dispute_stakes, Top.caller, Top.amount),
                                  !.state = "Disputed"], 0)
            /\ UNCHANGED <<now, admin, created, fee_hist, fee_ref, refund_a, dist_hist, tot_fees, creat_fee,
                           paid, fee_paid, claims_ok>>

\* -------------------------------------------------------------- collect_fees
\* MarketStateManager::mark_fees_collected
mark_fees_collected(market) == [market EXCEPT !.fee_collected = TRUE]

\* FeeTracker::record_fee_collection: the audit record and the running total.
record_fee_collection(m, amount, caller) ==
    /\ fee_hist' = Append(fee_hist, [market_id |-> m, amount |-> amount,
                                     collected_by |-> caller, timestamp |-> now,
                                     fee_percentage |-> PLATFORM_FEE_PERCENTAGE])
    /\ tot_fees' = tot_fees + amount

\* FeeManager::collect_fees up to the fee transfer.
collect_fees_check(caller, m) ==
    IF validate_admin_permissions(admin, caller) # OK
    THEN Err(validate_admin_permissions(admin, caller))
    ELSE IF m \notin DOMAIN markets THEN Err("MarketNotFound")
    ELSE IF validate_market_for_fee_collection(markets[m]) # OK
    THEN Err(validate_market_for_fee_collection(markets[m]))
    ELSE IF calculate_platform_fee(markets[m]).err # OK
    THEN calculate_platform_fee(markets[m])
    ELSE IF validate_fee_amount(calculate_platform_fee(markets[m]).val) # OK
    THEN Err(validate_fee_amount(calculate_platform_fee(markets[m]).val))
    ELSE calculate_platform_fee(markets[m])

\* collect_fees with fee_collected stored before the fee transfer is made.
collect_fees_marks_first(caller, m) ==
    LET r == collect_fees_check(caller, m)
    IN  /\ CanCall
        /\ IF r.err # OK THEN Fails(r.err)
           ELSE Pauses(Frame("collect_fees", caller, m, NONE, r.val, FALSE, markets[m]),
                       guard, MapSet(markets, m, mark_fees_collected(markets[m])))

collect_fees(caller, m) ==
    LET r == collect_fees_check(caller, m)
    IN  /\ CanCall
        /\ IF r.err # OK THEN Fails(r.err)
           ELSE Pauses(Frame("collect_fees", caller, m, NONE, r.val, FALSE, markets[m]),
                       guard, markets)

\* The fee transfer returns; record_fee_collection, then mark_fees_collected
\* on the market read before the transfer and update_market.
collect_fees_return(transfer_ok) ==
    /\ stack # <<>>
    /\ Top.op = "collect_fees"
    /\ IF ~transfer_ok THEN Aborts("TransferFailed")
       ELSE /\ Len(fee_hist) < MaxClaims
            /\ fee_paid' = [fee_paid EXCEPT ![Top.market] = @ + Top.amount]
            /\ record_fee_collection(Top.market, Top.amount, Top.caller)
            /\ markets' = MapSet(markets, Top.market, mark_fees_collected(Top.snap))
            /\ stack' = Pop
            /\ UNCHANGED <<now, admin, created, guard, creat_fee, paid, claims_ok,
                           fee_ref, refund_a, dist_hist>>

Next ==
    \/ advance_time
    \/ \E d \in DurationDays, a \in Addresses :
           create_market(a, QUESTION, OUTCOMES, d, ORACLE_CONFIG)
    \/ \E ok \in BOOLEAN : create_market_return(ok)
    \/ \E u \in Users, m \in MarketIds, o \in Outcomes \cup {"maybe"}, s \in VoteStakes :
           vote(u, m, o, s)
    \/ \E ok \in BOOLEAN : vote_return(ok)
    \/ \E m \in MarketIds : fetch_oracle_result(m, "oracle")
    \/ \E o \in OracleOutcomes \cup {NONE} : fetch_oracle_result_return(o)
    \/ \E m \in MarketIds : resolve_market(m)
    \/ \E a \in Addresses, m \in MarketIds, o \in OracleOutcomes :
           resolve_market_manual(a, m, o)
    \/ \E u \in Users, m \in MarketIds : claim_winnings(u, m)
    \/ \E ok \in BOOLEAN : claim_winnings_return(ok)
    \/ \E u \in Users, m \in MarketIds : process_winnings_claim(u, m)
    \/ \E u \in Disputers, m \in MarketIds, s \in DisputeStakes : dispute_result(u, m, s)
    \/ \E ok \in BOOLEAN : dispute_result_return(ok)
    \/ \E a \in Addresses, m \in MarketIds : collect_fees(a, m)
    \/ \E ok \in BOOLEAN : collect_fees_return(ok)

Spec == Init /\ [][Next]_vars

\* ---------------------------------------------------------------- settlement
\* Settlement of a resolved market: the market has been created, three voters
\* have staked, the voting period is over, the oracle result has been fetched
\* and resolve_market has run; claims and the fee collection follow, one
\* invocation after the other.
InitSettle ==
    /\ now = SECONDS_PER_DAY
    /\ admin = ADMIN
    /\ \E st \in [Voters -> SettleStakes], vt \in [Voters -> Outcomes],
          w \in OracleOutcomes :
           markets = [m \in MarketIds |->
                         [Market_new(ADMIN, SECONDS_PER_DAY, "Resolved") EXCEPT
                              !.votes = vt,
                              !.stakes = st,
                              !.total_staked = SumOver(st, Voters),
                              !.oracle_result = w,
                              !.winning_outcome = w]]
    /\ created = MarketIds
    /\ guard = [status |-> REENTRANCY_NOT_ENTERED, count |-> 0]
    /\ fee_hist = <<>>
    /\ fee_ref = <<>>
    /\ refund_a = [total |-> 0, timestamp |-> 0]
    /\ dist_hist = <<>>
    /\ tot_fees = 0
    /\ creat_fee = MARKET_CREATION_FEE
    /\ paid = [m \in MarketIds |-> [u \in Voters |-> 0]]
    /\ fee_paid = [m \in MarketIds |-> 0]
    /\ claims_ok = [m \in MarketIds |-> [u \in Voters |-> 0]]
    /\ stack = <<>>

NextSettle ==
    \/ \E u \in Voters, m \in MarketIds : stack = <<>> /\ claim_winnings(u, m)
    \/ \E ok \in BOOLEAN : claim_winnings_return(ok)
    \/ \E u \in Voters, m \in MarketIds : stack = <<>> /\ process_winnings_claim(u, m)
    \/ \E a \in Addresses, m \in MarketIds : stack = <<>> /\ collect_fees(a, m)
    \/ \E ok \in BOOLEAN : collect_fees_return(ok)

SpecSettle == InitSettle /\ [][NextSettle]_vars

\* ------------------------------------------------------------ voting window
\* The voting window of a market and the time after it: the market is
\* created, votes are cast, the clock runs up to and past end_time, the oracle
\* result is fetched and the market resolved or removed.  The clock is read
\* only in comparisons with end_time, so one step past it is followed.
advance_time_past_end ==
    /\ stack = <<>>
    /\ \E m \in DOMAIN markets : now <= markets[m].end_time
    /\ now' = now + SECONDS_PER_DAY
    /\ UNCHANGED <<admin, markets, created, guard, fee_hist, fee_ref, refund_a, dist_hist, tot_fees, creat_fee,
                   paid, fee_paid, claims_ok, stack>>

NextVoting ==
    \/ advance_time_past_end
    \/ \E d \in DurationDays, a \in Addresses :
           create_market(a, QUESTION, OUTCOMES, d, ORACLE_CONFIG)
    \/ \E ok \in BOOLEAN : create_market_return(ok)
    \/ \E u \in Users, m \in MarketIds, o \in Outcomes \cup {"maybe"}, s \in VoteStakes :
           vote(u, m, o, s)
    \/ \E ok \in BOOLEAN : vote_return(ok)
    \/ \E m \in MarketIds : fetch_oracle_result(m, "oracle")
    \/ \E o \in OracleOutcomes \cup {NONE} : fetch_oracle_result_return(o)
    \/ \E m \in MarketIds : resolve_market(m)
    \/ \E a \in Addresses, m \in MarketIds, o \in OracleOutcomes :
           resolve_market_manual(a, m, o)

SpecVoting == Init /\ [][NextVoting]_vars

\* ------------------------------------------------------ the guard by itself
\* The ReentrancyGuard API driven directly, as reentrancy_tests.rs drives it,
\* within one invocation: `stack` holds the guard objects alive, each with its
\* caller and its is_active flag, and `guard` the two instance storage keys
\* they share.  A method that returns Err leaves what it wrote before the
\* error in place.
GuardObject(caller) == [op |-> "guard", caller |-> caller, is_active |-> FALSE]

ReentrancyGuard_new(caller) ==
    /\ Len(stack) < MaxGuards
    /\ IF new(guard) # OK THEN Fails(new(guard))
       ELSE /\ stack' = Append(stack, GuardObject(caller))
            /\ UNCHANGED <<now, admin, markets, created, guard, fee_hist, fee_ref, refund_a, dist_hist, tot_fees,
                           creat_fee, paid, fee_paid, claims_ok>>

ReentrancyGuard_before_external_call(i) ==
    LET r == before_external_call(guard, stack[i].is_active)
    IN  /\ guard' = r.gs
        /\ stack' = [stack EXCEPT ![i].is_active = r.is_active]
        /\ UNCHANGED <<now, admin, markets, created, fee_hist, fee_ref, refund_a, dist_hist, tot_fees,
                       creat_fee, paid, fee_paid, claims_ok>>

ReentrancyGuard_after_external_call(i, success) ==
    LET a == after_external_call(guard, stack[i].is_active, success)
    IN  /\ guard' = a.gs
        /\ stack' = [stack EXCEPT ![i].is_active = a.is_active]
        /\ UNCHANGED <<now, admin, markets, created, fee_hist, fee_ref, refund_a, dist_hist, tot_fees,
                       creat_fee, paid, fee_paid, claims_ok>>

ReentrancyGuard_restore_state_on_failure(i) ==
    /\ guard' = reset_call_state(guard)
    /\ UNCHANGED <<now, admin, markets, created, fee_hist, fee_ref, refund_a, dist_hist, tot_fees,
                   creat_fee, paid, fee_paid, claims_ok, stack>>

\* The guard object goes out of scope; ReentrancyGuard has no Drop.
ReentrancyGuard_drop(i) ==
    /\ stack' = SubSeq(stack, 1, i - 1) \o SubSeq(stack, i + 1, Len(stack))
    /\ UNCHANGED <<now, admin, markets, created, guard, fee_hist, fee_ref, refund_a, dist_hist, tot_fees,
                   creat_fee, paid, fee_paid, claims_ok>>

NextGuard ==
    \/ \E a \in Addresses : ReentrancyGuard_new(a)
    \/ \E i \in 1..Len(stack) : ReentrancyGuard_before_external_call(i)
    \/ \E i \in 1..Len(stack), success \in BOOLEAN :
           ReentrancyGuard_after_external_call(i, success)
    \/ \E i \in 1..Len(stack) : ReentrancyGuard_restore_state_on_failure(i)
    \/ \E i \in 1..Len(stack) : ReentrancyGuard_drop(i)

SpecGuard == Init /\ [][NextGuard]_vars

\* ---------------------------------------------------- extend_market_duration
\* MarketExtension::validate
MarketExtension_validate(additional_days, reason) ==
    IF additional_days = 0 THEN "InvalidInput"
    ELSE IF additional_days > 30 THEN "InvalidInput"
    ELSE IF reason = "" THEN "InvalidInput"
    ELSE OK

\* PredictifyHybrid::calculate_extension_fee
calculate_extension_fee(additional_days) ==
    LET fee == 100000000 + 10000000 * additional_days
    IN  IF fee < 100000000 THEN 100000000
        ELSE IF fee > 1000000000 THEN 1000000000
        ELSE fee

\* ExtensionManager::extend_market_duration up to the extension-fee transfer.
extend_market_duration_check(caller, m, additional_days, reason) ==
    IF admin = NONE THEN Err("AdminNotSet")
    ELSE IF caller # admin THEN Err("Unauthorized")
    ELSE IF MarketExtension_validate(additional_days, reason) # OK
    THEN Err(MarketExtension_validate(additional_days, reason))
    ELSE IF m \notin DOMAIN markets THEN Err("MarketNotFound")
    ELSE IF markets[m].total_extension_days + additional_days > MAX_EXTENSION_DAYS
    THEN Err("InvalidInput")
    ELSE Ok(calculate_extension_fee(additional_days))

extend_market_duration(caller, m, additional_days, reason) ==
    LET r == extend_market_duration_check(caller, m, additional_days, reason)
    IN  /\ CanCall
        /\ IF r.err # OK THEN Fails(r.err)
           ELSE Pauses(Frame("extend_market_duration", caller, m, additional_days,
                             r.val, FALSE, markets[m]),
                       guard, markets)

\* The extension-fee transfer returns; end_time and total_extension_days of
\* the market read before the transfer are increased and the market is stored.
extend_market_duration_return(transfer_ok) ==
    /\ stack # <<>>
    /\ Top.op = "extend_market_duration"
    /\ IF ~transfer_ok THEN Aborts("TransferFailed")
       ELSE /\ markets' = MapSet(markets, Top.market,
                              [Top.snap EXCEPT
                                   !.end_time = @ + Top.arg * SECONDS_PER_DAY,
                                   !.total_extension_days = @ + Top.arg])
            /\ stack' = Pop
            /\ UNCHANGED <<now, admin, created, guard, fee_hist, fee_ref, refund_a, dist_hist, tot_fees,
                           creat_fee, paid, fee_paid, claims_ok>>

\* A market is created, votes are cast and the admin extends the deadline,
\* each of them also from inside the external call of another.
NextExtend ==
    \/ \E d \in DurationDays, a \in Addresses :
           create_market(a, QUESTION, OUTCOMES, d, ORACLE_CONFIG)
    \/ \E ok \in BOOLEAN : create_market_return(ok)
    \/ \E u \in Users, m \in MarketIds, o \in Outcomes, s \in StakeSet :
           vote(u, m, o, s)
    \/ \E ok \in BOOLEAN : vote_return(ok)
    \/ \E a \in Addresses, m \in MarketIds, d \in AdditionalDays, r \in Reasons :
           extend_market_duration(a, m, d, r)
    \/ \E ok \in BOOLEAN : extend_market_duration_return(ok)

SpecExtend == Init /\ [][NextExtend]_vars

\* ------------------------------------------- fee refunds and distributions
\* refund_fee_on_error with the refund record stored before fee_amount is
\* looked at.
refund_fee_on_error_records_first(m, fee_amount, recipient) ==
    /\ CanCall
    /\ Len(fee_ref) < MaxFeeRecords
    /\ fee_ref' = Append(fee_ref, [market_id |-> m, recipient |-> recipient,
                                   amount |-> fee_amount,
                                   refund_timestamp |-> now, status |-> "Pending"])
    /\ IF fee_amount <= 0
       THEN UNCHANGED <<now, admin, markets, created, guard, fee_hist, tot_fees,
                        creat_fee, paid, fee_paid, claims_ok, stack, refund_a,
                        dist_hist>>
       ELSE /\ stack' = Append(stack, Frame("refund_fee_on_error", recipient, m, NONE,
                                            fee_amount, FALSE, NoSnap))
            /\ UNCHANGED <<now, admin, markets, created, guard, fee_hist, tot_fees,
                           creat_fee, paid, fee_paid, claims_ok, refund_a,
                           dist_hist>>

\* FeeManager::refund_fee_on_error up to the refund transfer: the parameter
\* check, then the FeeRefund record appended under "fee_ref".
refund_fee_on_error(m, fee_amount, recipient) ==
    /\ CanCall
    /\ Len(fee_ref) < MaxFeeRecords
    /\ IF fee_amount <= 0 THEN Fails("InvalidInput")
       ELSE /\ fee_ref' = Append(fee_ref, [market_id |-> m, recipient |-> recipient,
                                           amount |-> fee_amount,
                                           refund_timestamp |-> now,
                                           status |-> "Pending"])
            /\ stack' = Append(stack, Frame("refund_fee_on_error", recipient, m, NONE,
                                            fee_amount, FALSE, NoSnap))
            /\ UNCHANGED <<now, admin, markets, created, guard, fee_hist, tot_fees,
                           creat_fee, paid, fee_paid, claims_ok, refund_a,
                           dist_hist>>

\* The refund transfer returns; record_fee_refund_analytics.
refund_fee_on_error_return(transfer_ok) ==
    /\ stack # <<>>
    /\ Top.op = "refund_fee_on_error"
    /\ IF ~transfer_ok THEN Aborts("TransferFailed")
       ELSE /\ refund_a' = [total |-> refund_a.total + Top.amount, timestamp |-> now]
            /\ stack' = Pop
            /\ UNCHANGED <<now, admin, markets, created, guard, fee_hist, tot_fees,
                           creat_fee, paid, fee_paid, claims_ok, fee_ref,
                           dist_hist>>

DistributionTotal(distribution) == SumOver(distribution, DOMAIN distribution)

\* FeeManager::validate_fee_distribution
validate_fee_distribution(distribution) ==
    IF DOMAIN distribution = {} THEN "InvalidInput"
    ELSE IF \E r \in DOMAIN distribution :
                distribution[r] <= 0 \/ distribution[r] > MAX_FEE_AMOUNT
    THEN "InvalidInput"
    ELSE IF DistributionTotal(distribution) <= 0 THEN "InvalidInput"
    ELSE IF \/ DistributionTotal(distribution) \div 10 > MAX_FEE_AMOUNT
            \/ /\ DistributionTotal(distribution) \div 10 = MAX_FEE_AMOUNT
               /\ DistributionTotal(distribution) % 10 > 0
    THEN "InvalidInput"
    ELSE OK

\* FeeDistributionExecution::is_valid
FeeDistributionExecution_is_valid(total_fee_amount, distribution) ==
    /\ total_fee_amount > 0
    /\ DOMAIN distribution # {}
    /\ \A r \in DOMAIN distribution : distribution[r] > 0
    /\ DistributionTotal(distribution) = total_fee_amount

\* distribute_fees_to_multiple_parties up to the transfers to the recipients.
distribute_fees_to_multiple_parties_check(caller, m, distribution) ==
    IF validate_admin_permissions(admin, caller) # OK
    THEN Err(validate_admin_permissions(admin, caller))
    ELSE IF validate_fee_distribution(distribution) # OK
    THEN Err(validate_fee_distribution(distribution))
    ELSE IF m \notin DOMAIN markets THEN Err("MarketNotFound")
    ELSE IF markets[m].winning_outcome = NONE THEN Err("MarketNotResolved")
    ELSE IF ~markets[m].fee_collected THEN Err("FeeAlreadyCollected")
    ELSE IF DistributionTotal(distribution) <= 0 THEN Err("InvalidInput")
    ELSE IF ~FeeDistributionExecution_is_valid(DistributionTotal(distribution),
                                               distribution)
    THEN Err("InvalidInput")
    ELSE Ok(DistributionTotal(distribution))

distribute_fees_to_multiple_parties(caller, m, distribution) ==
    LET r == distribute_fees_to_multiple_parties_check(caller, m, distribution)
    IN  /\ CanCall
        /\ Len(dist_hist) < MaxFeeRecords
        /\ IF r.err # OK THEN Fails(r.err)
           ELSE Pauses(Frame("distribute_fees_to_multiple_parties", caller, m,
                             distribution, r.val, FALSE, markets[m]),
                       guard, markets)

\* The transfers to the recipients return; store_distribution_execution.
distribute_fees_to_multiple_parties_return(transfer_ok) ==
    /\ stack # <<>>
    /\ Top.op = "distribute_fees_to_multiple_parties"
    /\ IF ~transfer_ok THEN Aborts("TransferFailed")
       ELSE /\ dist_hist' = Append(dist_hist,
                                   [market_id |-> Top.market,
                                    total_fee_amount |-> Top.amount,
                                    distribution |-> Top.arg,
                                    executed_by |-> Top.caller,
                                    execution_timestamp |-> now])
            /\ stack' = Pop
            /\ UNCHANGED <<now, admin, markets, created, guard, fee_hist, tot_fees,
                           creat_fee, paid, fee_paid, claims_ok, fee_ref,
                           refund_a>>

\* ------------------------------------------------------- market creation
\* create_market with every combination of arguments, on a contract that was
\* initialized at any of LedgerTimes; the clock then runs to the end_time of
\* the market that was stored.
InitCreate ==
    /\ now \in LedgerTimes
    /\ admin = ADMIN
    /\ markets = [m \in {} |-> NoSnap]
    /\ created = {}
    /\ guard = [status |-> REENTRANCY_NOT_ENTERED, count |-> 0]
    /\ fee_hist = <<>>
    /\ fee_ref = <<>>
    /\ refund_a = [total |-> 0, timestamp |-> 0]
    /\ dist_hist = <<>>
    /\ tot_fees = 0
    /\ creat_fee = 0
    /\ paid = [m \in MarketIds |-> [u \in Users |-> 0]]
    /\ fee_paid = [m \in MarketIds |-> 0]
    /\ claims_ok = [m \in MarketIds |-> [u \in Users |-> 0]]
    /\ stack = <<>>

NextCreate ==
    \/ advance_time
    \/ \E a \in Addresses, q \in Questions, os \in OutcomeLists,
          d \in AnyDurationDays, oc \in OracleConfigs :
           create_market(a, q, os, d, oc)
    \/ \E ok \in BOOLEAN : create_market_return(ok)

SpecCreate == InitCreate /\ [][NextCreate]_vars

\* ------------------------------------------------------- authentication
\* Address::require_auth: the invocation carries the set `auth` of addresses
\* that authenticated it, and require_auth of any other address traps.
AuthSets == {{}} \cup {{a} : a \in Voters \cup {ADMIN}}

require_auth(auth, address) == address \in auth

\* update_admin: no require_auth; the `admin` argument is compared with the
\* stored admin.
update_admin(caller, new_admin) ==
    IF admin = NONE THEN Fails("AdminNotSet")
    ELSE IF caller # admin THEN Fails("Unauthorized")
    ELSE /\ admin' = new_admin
         /\ UNCHANGED <<now, markets, created, guard, fee_hist, fee_ref, refund_a, dist_hist, tot_fees,
                        creat_fee, paid, fee_paid, claims_ok, stack>>

\* initialize_with_config: stores its `admin` argument unconditionally.
initialize_with_config(new_admin) ==
    /\ admin' = new_admin
    /\ UNCHANGED <<now, markets, created, guard, fee_hist, fee_ref, refund_a, dist_hist, tot_fees,
                   creat_fee, paid, fee_paid, claims_ok, stack>>

\* The entry points as invoked, between invocations, with the authentications
\* `auth`.
Invoke_claim_winnings(auth, user, m) ==
    /\ stack = <<>>
    /\ IF require_auth(auth, user) THEN claim_winnings(user, m) ELSE Fails("Auth")

Invoke_process_winnings_claim(auth, user, m) ==
    /\ stack = <<>>
    /\ process_winnings_claim(user, m)

Invoke_collect_fees(auth, caller, m) ==
    /\ stack = <<>>
    /\ IF require_auth(auth, caller) THEN collect_fees(caller, m) ELSE Fails("Auth")

Invoke_resolve_market(auth, m) ==
    /\ stack = <<>>
    /\ resolve_market(m)

Invoke_resolve_market_manual(auth, caller, m, winning_outcome) ==
    /\ stack = <<>>
    /\ IF require_auth(auth, caller)
       THEN resolve_market_manual(caller, m, winning_outcome)
       ELSE Fails("Auth")

Invoke_update_admin(auth, caller, new_admin) ==
    /\ stack = <<>>
    /\ update_admin(caller, new_admin)

Invoke_initialize_with_config(auth, new_admin) ==
    /\ stack = <<>>
    /\ initialize_with_config(new_admin)

\* One invocation of an entry point with the authentications `auth`.
Invocation(auth) ==
    \/ \E u \in Voters, m \in MarketIds : Invoke_claim_winnings(auth, u, m)
    \/ \E u \in Voters, m \in MarketIds : Invoke_process_winnings_claim(auth, u, m)
    \/ \E a \in Addresses, m \in MarketIds : Invoke_collect_fees(auth, a, m)
    \/ \E m \in MarketIds : Invoke_resolve_market(auth, m)
    \/ \E a \in Addresses, m \in MarketIds, o \in OracleOutcomes :
           Invoke_resolve_market_manual(auth, a, m, o)
    \/ \E a \in Addresses, n \in Addresses : Invoke_update_admin(auth, a, n)
    \/ \E n \in Addresses : Invoke_initialize_with_config(auth, n)

\* A market that has ended with an oracle result, resolved or not yet.
InitAuth ==
    /\ now = SECONDS_PER_DAY
    /\ admin = ADMIN
    /\ \E vt \in [Voters -> Outcomes], w \in OracleOutcomes, resolved \in BOOLEAN :
           markets = [m \in MarketIds |->
                         [Market_new(ADMIN, SECONDS_PER_DAY,
                                     IF resolved THEN "Resolved" ELSE "Ended") EXCEPT
                              !.votes = vt,
                              !.stakes = [v \in Voters |-> 100000000],
                              !.total_staked = 300000000,
                              !.oracle_result = w,
                              !.winning_outcome = IF resolved THEN w ELSE NONE]]
    /\ created = MarketIds
    /\ guard = [status |-> REENTRANCY_NOT_ENTERED, count |-> 0]
    /\ fee_hist = <<>>
    /\ fee_ref = <<>>
    /\ refund_a = [total |-> 0, timestamp |-> 0]
    /\ dist_hist = <<>>
    /\ tot_fees = 0
    /\ creat_fee = MARKET_CREATION_FEE
    /\ paid = [m \in MarketIds |-> [u \in Voters |-> 0]]
    /\ fee_paid = [m \in MarketIds |-> 0]
    /\ claims_ok = [m \in MarketIds |-> [u \in Voters |-> 0]]
    /\ stack = <<>>

NextAuth ==
    \/ \E auth \in AuthSets : Invocation(auth)
    \/ \E ok \in BOOLEAN : claim_winnings_return(ok)
    \/ \E ok \in BOOLEAN : collect_fees_return(ok)

SpecAuth == InitAuth /\ [][NextAuth]_vars

\* ------------------------------------------------- failing invocations
\* The operations that validate their arguments and then write or transfer:
\* create_market with every argument combination on a contract without a
\* market, and fee collection, fee distribution, fee refunds and claims on a
\* market that has ended, one invocation at a time.
InitFees == InitCreate \/ InitAuth

NextFees ==
    \/ \E a \in Addresses, q \in Questions, os \in OutcomeLists,
          d \in AnyDurationDays, oc \in OracleConfigs :
           stack = <<>> /\ create_market(a, q, os, d, oc)
    \/ \E ok \in BOOLEAN : create_market_return(ok)
    \/ \E u \in Voters, m \in MarketIds : stack = <<>> /\ claim_winnings(u, m)
    \/ \E ok \in BOOLEAN : claim_winnings_return(ok)
    \/ \E a \in Addresses, m \in MarketIds : stack = <<>> /\ collect_fees(a, m)
    \/ \E ok \in BOOLEAN : collect_fees_return(ok)
    \/ \E a \in Addresses, m \in MarketIds, dist \in Distributions :
           stack = <<>> /\ distribute_fees_to_multiple_parties(a, m, dist)
    \/ \E ok \in BOOLEAN : distribute_fees_to_multiple_parties_return(ok)
    \/ \E m \in MarketIds, amt \in RefundAmounts, a \in Addresses :
           stack = <<>> /\ refund_fee_on_error(m, amt, a)
    \/ \E ok \in BOOLEAN : refund_fee_on_error_return(ok)

SpecFees == InitFees /\ [][NextFees]_vars

\* -------------------------------------------- the guard functions on any input
\* The guard functions read the status and the counter from instance storage;
\* here they are applied to every stored pair up to MaxCount.
\* ------------------------------------------------------- fee calculators
\* The fee calculators applied to a market of any size: an ended market m1
\* whose only voter staked total_staked, resolved or not, its fee collected or
\* not.
InitFeeCalc ==
    /\ now = SECONDS_PER_DAY
    /\ admin = ADMIN
    /\ \E t \in TotalStakes, resolved \in BOOLEAN, collected \in BOOLEAN :
           markets = [m \in MarketIds |->
                         [Market_new(ADMIN, SECONDS_PER_DAY,
                                     IF resolved THEN "Resolved" ELSE "Ended") EXCEPT
                              !.votes = IF t = 0 THEN EmptyMap ELSE [v \in {"u1"} |-> "yes"],
                              !.stakes = IF t = 0 THEN EmptyMap ELSE [v \in {"u1"} |-> t],
                              !.total_staked = t,
                              !.oracle_result = "yes",
                              !.winning_outcome = IF resolved THEN "yes" ELSE NONE,
                              !.fee_collected = resolved /\ collected]]
    /\ created = MarketIds
    /\ guard = [status |-> REENTRANCY_NOT_ENTERED, count |-> 0]
    /\ fee_hist = <<>>
    /\ fee_ref = <<>>
    /\ refund_a = [total |-> 0, timestamp |-> 0]
    /\ dist_hist = <<>>
    /\ tot_fees = 0
    /\ creat_fee = MARKET_CREATION_FEE
    /\ paid = [m \in MarketIds |-> [u \in Users |-> 0]]
    /\ fee_paid = [m \in MarketIds |-> 0]
    /\ claims_ok = [m \in MarketIds |-> [u \in Users |-> 0]]
    /\ stack = <<>>

\* FeeCalculator::calculate_dynamic_fee_by_market_id reads the market and
\* writes nothing.
calculate_dynamic_fee_by_market_id(m) ==
    /\ CanCall
    /\ IF m \notin DOMAIN markets THEN Fails("MarketNotFound")
       ELSE IF calculate_dynamic_fee(markets[m]).err # OK
       THEN Fails(calculate_dynamic_fee(markets[m]).err)
       ELSE UNCHANGED vars

NextFeeCalc ==
    \/ \E m \in MarketIds : calculate_dynamic_fee_by_market_id(m)
    \/ \E a \in Addresses, m \in MarketIds : collect_fees(a, m)
    \/ \E ok \in BOOLEAN : collect_fees_return(ok)

SpecFeeCalc == InitFeeCalc /\ [][NextFeeCalc]_vars

\* ------------------------------------------------------------ large amounts
\* The fee calculators and collect_fees on amounts up to 10^15.  A call of
\* the pure calculate_user_payout_after_fees is a frame with its arguments and,
\* once it has returned, its result.

\* total_staked of large markets
LargeStakes ==
    {I128(0), I128(99999999), I128(100000000), I128(1000000000), <<10, 0>>,
     <<50, 0>>, <<50, 49>>, <<50, 50>>, <<100, 0>>, <<1000000, 0>>}

\* arguments of the payout calculator: stakes up to 1_000_000_000, totals of
\* the winning outcome up to 5_000_000_000, pools up to 10_000_000_000
PayoutArguments ==
    [user_stake    : {I128(0), I128(7), I128(33), I128(50), I128(100), I128(1000000000)},
     winning_total : {I128(0), I128(7), I128(33), I128(100), <<4, 0>>, <<5, 0>>},
     total_pool    : {I128(0), I128(7), I128(50), I128(100), <<5, 0>>, <<10, 0>>}]

InitLarge ==
    /\ now = SECONDS_PER_DAY
    /\ admin = ADMIN
    /\ created = MarketIds
    /\ guard = [status |-> REENTRANCY_NOT_ENTERED, count |-> 0]
    /\ fee_hist = <<>>
    /\ fee_ref = <<>>
    /\ refund_a = [total |-> 0, timestamp |-> 0]
    /\ dist_hist = <<>>
    /\ tot_fees = I128(0)
    /\ creat_fee = MARKET_CREATION_FEE
    /\ paid = [m \in MarketIds |-> [u \in Users |-> 0]]
    /\ fee_paid = [m \in MarketIds |-> I128(0)]
    /\ claims_ok = [m \in MarketIds |-> [u \in Users |-> 0]]
    /\ \E t \in LargeStakes, resolved \in BOOLEAN, collected \in BOOLEAN :
           markets = [m \in MarketIds |->
                         [Market_new(ADMIN, SECONDS_PER_DAY,
                                     IF resolved THEN "Resolved" ELSE "Ended") EXCEPT
                              !.votes = IF t = I128(0) THEN EmptyMap
                                        ELSE [v \in {"u1"} |-> "yes"],
                              !.stakes = IF t = I128(0) THEN EmptyMap
                                         ELSE [v \in {"u1"} |-> t],
                              !.total_staked = t,
                              !.oracle_result = "yes",
                              !.winning_outcome = IF resolved THEN "yes" ELSE NONE,
                              !.fee_collected = resolved /\ collected]]
    /\ \/ stack = <<>>
       \/ /\ markets["m1"].total_staked = I128(0)
          /\ markets["m1"].winning_outcome = NONE
          /\ \E a \in PayoutArguments :
                 stack = <<[op |-> "calculate_user_payout_after_fees",
                            user_stake |-> a.user_stake,
                            winning_total |-> a.winning_total,
                            total_pool |-> a.total_pool,
                            returned |-> FALSE, result |-> Err(NONE),
                            is_active |-> FALSE, sealed |-> TRUE]>>

\* FeeCalculator::calculate_user_payout_after_fees returns.
FeeCalculator_calculate_user_payout_after_fees ==
    /\ stack # <<>>
    /\ Top.op = "calculate_user_payout_after_fees"
    /\ ~Top.returned
    /\ stack' = <<[Top EXCEPT
                     !.returned = TRUE,
                     !.result = calculate_user_payout_after_fees_i128(
                                    Top.user_stake, Top.winning_total, Top.total_pool)]>>
    /\ UNCHANGED <<now, admin, markets, created, guard, fee_hist, fee_ref, refund_a,
                   dist_hist, tot_fees, creat_fee, paid, fee_paid, claims_ok>>

\* FeeManager::collect_fees up to the fee transfer, on a large market.
collect_fees_check_i128(caller, m) ==
    IF validate_admin_permissions(admin, caller) # OK
    THEN Err(validate_admin_permissions(admin, caller))
    ELSE IF m \notin DOMAIN markets THEN Err("MarketNotFound")
    ELSE IF validate_market_for_fee_collection_i128(markets[m]) # OK
    THEN Err(validate_market_for_fee_collection_i128(markets[m]))
    ELSE IF calculate_platform_fee_i128(markets[m]).err # OK
    THEN calculate_platform_fee_i128(markets[m])
    ELSE IF validate_fee_amount_i128(calculate_platform_fee_i128(markets[m]).val) # OK
    THEN Err(validate_fee_amount_i128(calculate_platform_fee_i128(markets[m]).val))
    ELSE calculate_platform_fee_i128(markets[m])

\* FeeManager::collect_fees on a large market, with the outcome of its fee
\* transfer: the transfer, record_fee_collection, mark_fees_collected and
\* update_market.
collect_fees_i128(caller, m, transfer_ok) ==
    LET r == collect_fees_check_i128(caller, m)
    IN  /\ stack = <<>>
        /\ IF r.err # OK THEN Fails(r.err)
           ELSE IF ~transfer_ok THEN Fails("TransferFailed")
           ELSE /\ fee_paid' = [fee_paid EXCEPT ![m] = I128_add(@, r.val)]
                /\ fee_hist' = Append(fee_hist,
                                      [market_id |-> m, amount |-> r.val,
                                       collected_by |-> caller, timestamp |-> now,
                                       fee_percentage |-> PLATFORM_FEE_PERCENTAGE])
                /\ tot_fees' = I128_add(tot_fees, r.val)
                /\ markets' = MapSet(markets, m, mark_fees_collected(markets[m]))
                /\ UNCHANGED <<now, admin, created, guard, creat_fee, paid, claims_ok,
                               fee_ref, refund_a, dist_hist, stack>>

NextLarge ==
    \/ FeeCalculator_calculate_user_payout_after_fees
    \/ \E a \in Addresses, m \in MarketIds, ok \in BOOLEAN : collect_fees_i128(a, m, ok)

SpecLarge == InitLarge /\ [][NextLarge]_vars

GuardStates ==
    [status : {REENTRANCY_NOT_ENTERED, REENTRANCY_ENTERED}, count : 0..MaxCount]

InitGuardAny ==
    /\ now = 0
    /\ admin = ADMIN
    /\ markets = [m \in {} |-> NoSnap]
    /\ created = {}
    /\ guard \in GuardStates
    /\ fee_hist = <<>>
    /\ fee_ref = <<>>
    /\ refund_a = [total |-> 0, timestamp |-> 0]
    /\ dist_hist = <<>>
    /\ tot_fees = 0
    /\ creat_fee = 0
    /\ paid = [m \in MarketIds |-> [u \in Users |-> 0]]
    /\ fee_paid = [m \in MarketIds |-> 0]
    /\ claims_ok = [m \in MarketIds |-> [u \in Users |-> 0]]
    /\ stack = <<>>

\* One whole protect_external_call; its guard object lives inside the call.
ReentrancyGuard_protect_external_call(success) ==
    /\ guard' = protect_external_call(guard, success).gs
    /\ UNCHANGED <<now, admin, markets, created, fee_hist, fee_ref, refund_a, dist_hist, tot_fees,
                   creat_fee, paid, fee_paid, claims_ok, stack>>

NextGuardAny ==
    \/ NextGuard
    \/ \E success \in BOOLEAN : ReentrancyGuard_protect_external_call(success)

SpecGuardAny == InitGuardAny /\ [][NextGuardAny]_vars

\* =============================================================== properties
\* Guarded invocations that are between before_external_call and
\* after_external_call.
GuardedInFlight == {i \in 1..Len(stack) : stack[i].is_active}

\* Every way of starting a guarded operation in the current state ends with
\* error e.
EveryGuardedStart(e) ==
    /\ \A u \in Users, m \in MarketIds, o \in Outcomes, s \in VoteStakes :
           vote_result(u, m, o, s) = e
    /\ \A u \in Users, m \in MarketIds : claim_winnings_result(u, m) = e
    /\ \A u \in Users, m \in MarketIds, s \in DisputeStakes :
           dispute_result_result(u, m, s) = e
    /\ \A m \in MarketIds : fetch_oracle_result_result(m) = e

\* C1: while a guarded operation is between before_external_call and
\* after_external_call, every attempt to start another guarded operation
\* fails with ReentrancyAttack, so at most one is ever in flight.
C1_NestedGuardedRejected ==
    /\ Cardinality(GuardedInFlight) <= 1
    /\ GuardedInFlight # {} => EveryGuardedStart("ReentrancyAttack")

\* A winner's claim_winnings waits for its payout transfer; the callee calls
\* back and has an unguarded collect_fees in flight; a vote is rejected.
C1_Witness ==
    /\ Len(stack) = 2
    /\ stack[1].op = "claim_winnings"
    /\ stack[1].is_active
    /\ stack[2].op = "collect_fees"
    /\ vote_result("u2", "m1", "yes", 50000024) = "ReentrancyAttack"

\* C2: once after_external_call has completed, for a succeeded and for a
\* failed operation alike, the next guarded operation can start: with no
\* guarded operation in flight the guard is not locked, and from every guard
\* state a guarded operation starts in, after_external_call(true) and
\* after_external_call(false) both return Ok and leave a guard that
\* ReentrancyGuard::new and before_external_call accept.
C2_GuardReleased ==
    /\ GuardedInFlight = {} =>
           /\ validate_no_reentrancy(guard) = OK
           /\ protect_external_call_enter(guard).err = OK
           /\ \A success \in BOOLEAN :
                  LET g == protect_external_call_enter(guard)
                      a == after_external_call(g.gs, g.is_active, success)
                  IN  /\ a.err = OK
                      /\ ~a.is_active
                      /\ protect_external_call_enter(a.gs).err = OK
    /\ GuardedInFlight # {} =>
           \A success \in BOOLEAN :
              LET a == after_external_call(guard, TRUE, success)
              IN  /\ a.err = OK
                  /\ protect_external_call_enter(a.gs).err = OK

\* A guarded vote has returned and been recorded, and nothing is in flight.
C2_Witness ==
    /\ stack = <<>>
    /\ "m1" \in DOMAIN markets
    /\ "u1" \in DOMAIN markets["m1"].votes
    /\ guard.status = REENTRANCY_NOT_ENTERED

\* C3: for every user and market at most one claim call (claim_winnings or
\* process_winnings_claim) succeeds.
C3_AtMostOneClaimSucceeds ==
    \A m \in MarketIds : \A u \in DOMAIN claims_ok[m] : claims_ok[m][u] <= 1

\* C4: a user is marked claimed only when the payout has been transferred to
\* that user.
C4_ClaimedOnlyAfterPayout ==
    \A m \in DOMAIN markets : \A u \in DOMAIN markets[m].claimed :
        markets[m].claimed[u] => paid[m][u] > 0

\* Fee collections of market m that succeeded: its audit records.
FeeCollections(m) == {i \in 1..Len(fee_hist) : fee_hist[i].market_id = m}

\* C5: collect_fees succeeds at most once per market.
C5_FeeCollectedAtMostOnce ==
    \A m \in MarketIds : Cardinality(FeeCollections(m)) <= 1

\* C6: fee_collected is written only once the fee transfer has succeeded, and
\* the audit record and the running total only with it: a market is marked
\* only if a fee was transferred for it, the records and the total account
\* for exactly the fees transferred, and while a collect_fees waits for its
\* transfer and no fee has been transferred since it started, neither the
\* flag nor the audit log nor the running total has been written.
C6_FlagWrittenAfterTransfer ==
    /\ \A m \in DOMAIN markets : markets[m].fee_collected => fee_paid[m] > 0
    /\ \A m \in MarketIds :
           SumOver([i \in FeeCollections(m) |-> fee_hist[i].amount], FeeCollections(m))
               = fee_paid[m]
    /\ tot_fees = SumOver(fee_paid, MarketIds)
    /\ (stack # <<>> /\ Top.op = "collect_fees" /\ fee_paid = Top.saved.fee_paid) =>
           /\ fee_hist = Top.saved.fee_hist
           /\ tot_fees = Top.saved.tot_fees
           /\ Top.market \in DOMAIN markets => ~markets[Top.market].fee_collected

\* A collect_fees waits for its fee transfer with nothing written yet.
C6_Witness ==
    /\ Len(stack) = 1
    /\ Top.op = "collect_fees"
    /\ "m1" \in DOMAIN markets
    /\ ~markets["m1"].fee_collected
    /\ fee_hist = <<>>

\* C7: once a stored market's fee_collected is true, no step sets it back to
\* false.
C7_FeeCollectedNeverReverts ==
    [][\A m \in DOMAIN markets :
          (markets[m].fee_collected /\ m \in DOMAIN markets')
              => markets'[m].fee_collected]_vars

GuardedOps == {"vote", "claim_winnings", "dispute_result", "fetch_oracle_result"}

\* C10: vote, claim_winnings, dispute_result and fetch_oracle_result are
\* rejected with ReentrancyAttack whenever the guard is Entered, and while one
\* of them is at its external call it holds the guard: its guard object is
\* active and the stored status is Entered.
C10_EntryPointsWrapped ==
    /\ guard.status = REENTRANCY_ENTERED => EveryGuardedStart("ReentrancyAttack")
    /\ \A i \in 1..Len(stack) :
           stack[i].op \in GuardedOps =>
               stack[i].is_active /\ guard.status = REENTRANCY_ENTERED

\* A dispute_result waits for its stake transfer with the guard held while
\* fetch_oracle_result, called back, is rejected.
C10_Witness ==
    /\ stack # <<>>
    /\ stack[1].op = "dispute_result"
    /\ guard.status = REENTRANCY_ENTERED
    /\ fetch_oracle_result_result("m1") = "ReentrancyAttack"

\* ------------------------------------------------------ settlement claims
Winners(market) ==
    {u \in DOMAIN market.votes : market.votes[u] = market.winning_outcome}

\* The market is resolved, its fee has been collected once and every winning
\* voter has made exactly one successful claim call.
FullySettled(m) ==
    /\ stack = <<>>
    /\ m \in DOMAIN markets
    /\ markets[m].winning_outcome # NONE
    /\ markets[m].fee_collected
    /\ Cardinality(FeeCollections(m)) = 1
    /\ Winners(markets[m]) # {}
    /\ \A u \in Winners(markets[m]) :
           claims_ok[m][u] = 1 /\ MapGet(markets[m].claimed, u, FALSE)

\* What is left of total_staked once the collected fee and the payout of
\* every winner, as calculate_user_payout_after_fees computes it, are taken.
Remainder(m) ==
    LET market == markets[m]
        W == Winners(market)
        winning_total == winning_total_of(market, market.winning_outcome)
    IN  market.total_staked - fee_paid[m]
            - SumOver([u \in W |-> calculate_user_payout_after_fees(
                                       MapGet(market.stakes, u, 0), winning_total,
                                       market.total_staked).val], W)

\* The same with the payouts process_winnings_claim returns.
RemainderOfClaimEntry(m) ==
    LET market == markets[m]
        W == Winners(market)
    IN  market.total_staked - fee_paid[m]
            - SumOver([u \in W |-> process_winnings_claim_payout(market, u)], W)

\* C8: in a resolved market whose fee has been collected and whose winners
\* have each claimed once, payouts plus fee do not exceed total_staked: the
\* remainder that completes the sum to total_staked is non-negative, for the
\* payouts of calculate_user_payout_after_fees and for those of
\* process_winnings_claim.
C8_Conservation ==
    \A m \in MarketIds :
        FullySettled(m) => Remainder(m) >= 0 /\ RemainderOfClaimEntry(m) >= 0

\* Two winners are settled, one paid by claim_winnings and one through
\* process_winnings_claim, the fee is collected and a remainder is left.
C8_Witness ==
    /\ FullySettled("m1")
    /\ Cardinality(Winners(markets["m1"])) = 2
    /\ paid["m1"]["u1"] > 0
    /\ paid["m1"]["u2"] = 0
    /\ markets["m1"].votes["u2"] = markets["m1"].winning_outcome
    /\ Remainder("m1") > 0

C11_ExternalCallOpsGuarded ==
    /\ \A i \in 1..Len(stack) :
           stack[i].is_active /\ guard.status = REENTRANCY_ENTERED
    /\ Len(stack) <= 1

\* The pairs (market, user) where the user has a vote entry in the market.
HasVoted(m, u) == m \in DOMAIN markets /\ u \in DOMAIN markets[m].votes

\* C12 as stated: once a user has voted in a market, every further vote call
\* by that user on that market, made as an invocation of its own with one of
\* the market's outcomes and a positive stake, fails with AlreadyVoted.
C12_RepeatVoteAlreadyVoted ==
    \A m \in MarketIds, u \in Users :
        (HasVoted(m, u) /\ stack = <<>>) =>
            \A o \in Outcomes, s \in StakeSet : vote_result(u, m, o, s) = "AlreadyVoted"

\* C12, amended: once a user has voted in a market, every further vote call
\* by that user on that market fails; it fails with AlreadyVoted when it is
\* made before end_time with one of the market's outcomes and a positive
\* stake while no guarded operation is in flight, and VoteParams::validate
\* rejects such parameters with AlreadyVoted; no vote of that user is in
\* flight; and a step that adds no voter to a stored market leaves its votes
\* map, its stakes map and its total_staked unchanged.
C12_RepeatVoteRejected ==
    /\ [](\A m \in MarketIds, u \in Users :
             HasVoted(m, u) =>
                 /\ \A o \in Outcomes \cup {"maybe"}, s \in VoteStakes :
                        /\ vote_result(u, m, o, s) # OK
                        /\ (guard.status = REENTRANCY_NOT_ENTERED
                              /\ is_active(markets[m], now)
                              /\ o \in Outcomes /\ s > 0) =>
                               /\ vote_result(u, m, o, s) = "AlreadyVoted"
                               /\ VoteParams_validate(markets[m], u, o, s)
                                      = "AlreadyVoted"
                 /\ \A i \in 1..Len(stack) :
                        ~(stack[i].op = "vote" /\ stack[i].market = m
                            /\ stack[i].caller = u))
    /\ [][\A m \in DOMAIN markets \cap DOMAIN markets' :
              DOMAIN markets'[m].votes = DOMAIN markets[m].votes =>
                  /\ markets'[m].votes = markets[m].votes
                  /\ markets'[m].stakes = markets[m].stakes
                  /\ markets'[m].total_staked = markets[m].total_staked]_vars

\* u1 has voted yes in the open market m1, nothing is in flight, and a vote
\* of u1 for no is rejected with AlreadyVoted.
C12_Witness ==
    /\ stack = <<>>
    /\ HasVoted("m1", "u1")
    /\ markets["m1"].votes["u1"] = "yes"
    /\ is_active(markets["m1"], now)
    /\ vote_result("u1", "m1", "no", 50000024) = "AlreadyVoted"

\* C13: in every reachable state the total_staked of every stored market is
\* the sum of the values of its stakes map.
C13_TotalStakedIsSumOfStakes ==
    \A m \in DOMAIN markets :
        markets[m].total_staked
            = SumOver(markets[m].stakes, DOMAIN markets[m].stakes)

\* Both users have staked in m1 and the total is the sum of the two stakes.
C13_Witness ==
    /\ "m1" \in DOMAIN markets
    /\ DOMAIN markets["m1"].stakes = Users
    /\ markets["m1"].total_staked = 100000048

\* C14: a vote call made at a time now >= end_time, now == end_time included,
\* fails with MarketClosed whatever the user, the outcome and the stake, and
\* records no vote or stake: the wrapped operation returns MarketClosed, the
\* entry point ends with it unless the guard rejects the call first, no vote
\* call reaches its transfer, and no step changes the votes, the stakes or
\* the total_staked of a stored market whose end_time has been reached.
C14_VoteClosedAtEndTime ==
    /\ [](\A m \in DOMAIN markets :
             has_ended(markets[m], now) =>
                 /\ \A u \in Users, o \in Outcomes \cup {"maybe"}, s \in VoteStakes :
                        /\ process_vote_check(m, u, o, s) = "MarketClosed"
                        /\ vote_result(u, m, o, s) # OK
                        /\ guard.status = REENTRANCY_NOT_ENTERED =>
                               vote_result(u, m, o, s) = "MarketClosed"
                 /\ \A i \in 1..Len(stack) :
                        ~(stack[i].op = "vote" /\ stack[i].market = m))
    /\ [][\A m \in DOMAIN markets \cap DOMAIN markets' :
              has_ended(markets[m], now) =>
                  /\ markets'[m].votes = markets[m].votes
                  /\ markets'[m].stakes = markets[m].stakes
                  /\ markets'[m].total_staked = markets[m].total_staked]_vars

\* The clock stands exactly at the end_time of m1, u2 has not voted, and a
\* valid vote of u2 is rejected with MarketClosed.
C14_Witness ==
    /\ stack = <<>>
    /\ "m1" \in DOMAIN markets
    /\ now = markets["m1"].end_time
    /\ ~HasVoted("m1", "u2")
    /\ vote_result("u2", "m1", "yes", 50000024) = "MarketClosed"

\* C15: fetch_oracle_result fails for every call made at a time
\* now < end_time, so that no oracle_result is recorded for a market before
\* its voting has closed: while the market is open the wrapped operation
\* returns MarketClosed, the entry point does not reach the oracle call, no
\* fetch is in flight and the market has no oracle_result; and every step
\* that records an oracle_result is taken at a time now >= end_time.
C15_NoOracleResultBeforeEndTime ==
    /\ [](\A m \in DOMAIN markets :
             is_active(markets[m], now) =>
                 /\ fetchoracle_result_check(m) = "MarketClosed"
                 /\ fetch_oracle_result_result(m) # OK
                 /\ markets[m].oracle_result = NONE
                 /\ \A i \in 1..Len(stack) :
                        ~(stack[i].op = "fetch_oracle_result" /\ stack[i].market = m))
    /\ [][\A m \in DOMAIN markets' :
              (/\ markets'[m].oracle_result # NONE
               /\ (m \in DOMAIN markets => markets[m].oracle_result = NONE))
                  => now >= markets'[m].end_time]_vars

\* m1 is open with a vote cast, nothing is in flight, and fetch_oracle_result
\* is rejected with MarketClosed.
C15_Witness ==
    /\ stack = <<>>
    /\ HasVoted("m1", "u1")
    /\ now < markets["m1"].end_time
    /\ fetch_oracle_result_result("m1") = "MarketClosed"

\* -------------------------------------------------------------- resolution
\* C16: resolve_market never sets a winning_outcome for a market that has no
\* oracle_result recorded: for such a market it returns an error, a stored
\* market with a winning_outcome has an oracle_result, and every step that
\* gives a stored unresolved market a winning_outcome starts from a recorded
\* oracle_result, leaves it as it is and resolves to it.
C16_ResolveNeedsOracleResult ==
    /\ [](\A m \in DOMAIN markets :
             /\ markets[m].oracle_result = NONE =>
                    MarketResolutionManager_resolve_market(m).err # OK
             /\ markets[m].winning_outcome # NONE =>
                    markets[m].oracle_result # NONE)
    /\ [][\A m \in DOMAIN markets \cap DOMAIN markets' :
              (markets[m].winning_outcome = NONE
                 /\ markets'[m].winning_outcome # NONE) =>
                  /\ markets[m].oracle_result # NONE
                  /\ markets'[m].oracle_result = markets[m].oracle_result
                  /\ markets'[m].winning_outcome = markets[m].oracle_result]_vars

\* Voting on m1 has closed with a vote cast and no oracle result fetched:
\* resolve_market is rejected and m1 stays unresolved.
C16_Witness ==
    /\ stack = <<>>
    /\ HasVoted("m1", "u1")
    /\ has_ended(markets["m1"], now)
    /\ markets["m1"].oracle_result = NONE
    /\ markets["m1"].winning_outcome = NONE
    /\ MarketResolutionManager_resolve_market("m1").err = "OracleUnavailable"

\* C17 as stated: a stored market whose winning_outcome is set has state
\* Resolved or Closed.
C17_ResolvedOrClosed ==
    \A m \in DOMAIN markets :
        is_resolved(markets[m]) => markets[m].state \in {"Resolved", "Closed"}

\* C17, amended: a stored market whose winning_outcome is set has state
\* Resolved, Disputed (while a dispute raised against the resolution is open)
\* or Closed, never Active, Ended or Cancelled, and the state
\* MarketState::from_market derives for it is Resolved; every stored state is
\* a value of MarketState.
C17_ResolvedDisputedOrClosed ==
    \A m \in DOMAIN markets :
        /\ markets[m].state \in MarketState
        /\ is_resolved(markets[m]) =>
               /\ markets[m].state \in {"Resolved", "Disputed", "Closed"}
               /\ MarketState_from_market(markets[m], now) = "Resolved"

\* m1 has been resolved and then disputed by u1: its winning_outcome is set
\* and its state is Disputed.
C17_Witness ==
    /\ stack = <<>>
    /\ "m1" \in DOMAIN markets
    /\ is_resolved(markets["m1"])
    /\ "u1" \in DOMAIN markets["m1"].dispute_stakes
    /\ markets["m1"].state = "Disputed"

\* C18: once the winning_outcome of a stored market is set, no step of an
\* operation other than resolve_dispute changes or clears it: the market
\* stays stored with the same winning_outcome.
C18_WinningOutcomeKept ==
    [][\A m \in DOMAIN markets :
          is_resolved(markets[m]) =>
              /\ m \in DOMAIN markets'
              /\ markets'[m].winning_outcome = markets[m].winning_outcome]_vars

\* The place of a resolution state in the order Active, OracleResolved,
\* MarketResolved, Disputed.
ResolutionOrder(state) ==
    CASE state = "Active" -> 0
      [] state = "OracleResolved" -> 1
      [] state = "MarketResolved" -> 2
      [] state = "Disputed" -> 3

\* C19: the resolution state get_resolution_state reports for a market only
\* moves forward in the order Active, OracleResolved, MarketResolved,
\* Disputed: no step takes it to an earlier state.
C19_ResolutionStateForward ==
    [][\A m \in MarketIds :
          ResolutionOrder(get_resolution_state(markets', m))
              >= ResolutionOrder(get_resolution_state(markets, m))]_vars

\* ------------------------------------------------------------ guard objects
\* C20: after_external_call on a guard object whose before_external_call
\* never ran fails with InvalidReentrancyState and changes neither the global
\* guard status nor the call-depth counter, whether it reports success or
\* failure and whatever the stored guard state is.
C20_AfterWithoutBeforeRejected ==
    \A success \in BOOLEAN :
        LET a == after_external_call(guard, FALSE, success)
        IN  /\ a.err = "InvalidReentrancyState"
            /\ a.gs = guard
            /\ ~a.is_active

\* A guard object that never entered is alive while another one holds the
\* guard: the status is Entered, the counter 1, and after_external_call on
\* the first is rejected.
C20_Witness ==
    /\ Len(stack) = 2
    /\ ~stack[1].is_active
    /\ stack[2].is_active
    /\ guard = [status |-> REENTRANCY_ENTERED, count |-> 1]
    /\ after_external_call(guard, stack[1].is_active, TRUE).err
           = "InvalidReentrancyState"

\* An entered guard: a guard object between its before_external_call and its
\* after_external_call, with the stored status ENTERED.
EnteredGuard ==
    /\ guard.status = REENTRANCY_ENTERED
    /\ \E i \in 1..Len(stack) : stack[i].is_active

C23_CollectFeesChecks ==
    /\ \A a \in Addresses, m \in DOMAIN markets :
           LET r  == collect_fees_check(a, m)
               mk == markets[m]
           IN  /\ r.err = OK =>
                      /\ a = admin
                      /\ mk.winning_outcome # NONE
                      /\ ~mk.fee_collected
                      /\ mk.total_staked >= FEE_COLLECTION_THRESHOLD
               /\ a # admin => r.err = "Unauthorized"
               /\ (a = admin /\ mk.winning_outcome = NONE) =>
                      r.err = "MarketNotResolved"
               /\ (a = admin /\ mk.winning_outcome # NONE /\ mk.fee_collected) =>
                      r.err = "FeeAlreadyCollected"
               /\ (a = admin /\ mk.winning_outcome # NONE /\ ~mk.fee_collected
                     /\ mk.total_staked < FEE_COLLECTION_THRESHOLD) =>
                      r.err = "InsufficientStake"
    /\ \A i \in 1..Len(stack) :
           stack[i].op = "collect_fees" =>
               /\ stack[i].caller = admin
               /\ stack[i].snap.winning_outcome # NONE
               /\ ~stack[i].snap.fee_collected
               /\ stack[i].snap.total_staked >= FEE_COLLECTION_THRESHOLD

\* The fee of m1 has been collected (its transfer was made), and a further
\* collect_fees by the admin is answered FeeAlreadyCollected.
C23_Witness ==
    /\ "m1" \in DOMAIN markets
    /\ markets["m1"].fee_collected
    /\ fee_paid["m1"] > 0
    /\ collect_fees_check(admin, "m1").err = "FeeAlreadyCollected"

\* C24: a successful create_market stores the new market in state Active with
\* end_time equal to the ledger time of the call plus duration_days * 86400
\* seconds, for a duration of 1 to 365 days, and the market is kept as stored
\* when the creation-fee transfer has returned.
C24_CreatedActiveWithEndTime ==
    [][/\ Len(stack') > Len(stack) =>
              \A a \in Addresses, q \in Questions, os \in OutcomeLists,
                 d \in AnyDurationDays, oc \in OracleConfigs :
                  create_market(a, q, os, d, oc) =>
                      /\ d \in 1..365
                      /\ Top'.op = "create_market"
                      /\ Top'.market \notin DOMAIN markets
                      /\ Top'.market \in DOMAIN markets'
                      /\ markets'[Top'.market].state = "Active"
                      /\ markets'[Top'.market].end_time = now + d * 86400
       /\ (Len(stack') < Len(stack) /\ creat_fee' > creat_fee) =>
              markets' = markets]_vars

\* create_market was called three days after the epoch with a duration of 365
\* days and has returned: m1 is stored Active with end_time 368 days.
C24_Witness ==
    /\ stack = <<>>
    /\ now = 3 * SECONDS_PER_DAY
    /\ "m1" \in DOMAIN markets
    /\ markets["m1"].state = "Active"
    /\ markets["m1"].end_time = 3 * SECONDS_PER_DAY + 365 * 86400
    /\ creat_fee = MARKET_CREATION_FEE

\* C25: create_market called with fewer than 2 outcomes fails with
\* InvalidOutcome (error code 5) when the admin calls it with a question
\* (a caller who is not the admin is answered Unauthorized and an empty
\* question InvalidInput, both checked earlier), whatever the duration and the
\* oracle_config, and no step that stores a market is such a call.
C25_FewOutcomesInvalidOutcome ==
    /\ [](\A a \in Addresses, q \in Questions, os \in OutcomeLists,
             d \in AnyDurationDays, oc \in OracleConfigs :
              Len(os) < 2 =>
                  LET r == create_market_check(a, q, os, d, oc)
                  IN  /\ r.err \in {"Unauthorized", "InvalidInput", "InvalidOutcome"}
                      /\ (a = admin /\ q # "") => r.err = "InvalidOutcome")
    /\ [][(markets' # markets \/ created' # created \/ stack' # stack) =>
              \A a \in Addresses, q \in Questions, os \in OutcomeLists,
                 d \in AnyDurationDays, oc \in OracleConfigs :
                  Len(os) < 2 => ~create_market(a, q, os, d, oc)]_vars

\* The admin calls create_market with the question of the tests and an empty
\* list of outcomes on a contract that holds no market: the answer is
\* InvalidOutcome.
C25_Witness ==
    /\ stack = <<>>
    /\ created = {}
    /\ DOMAIN markets = {}
    /\ create_market_check(admin, QUESTION, <<>>, 1, ORACLE_CONFIG).err
           = "InvalidOutcome"

\* C26: create_market called by the admin with a question, two outcomes, a
\* duration of 1 to 365 days and an oracle_config that has threshold <= 0, a
\* comparison outside {gt, lt, eq}, an empty feed id or an unsupported provider
\* fails with one of InvalidConfig, InvalidThreshold or InvalidOracleFeed, and
\* with no other error code.
C26_OracleConfigErrorCodes ==
    \A d \in AnyDurationDays \cap (1..365), oc \in OracleConfigs :
        (\/ oc.threshold <= 0
         \/ oc.comparison \notin {"gt", "lt", "eq"}
         \/ oc.feed_id = ""
         \/ oc.provider \notin {"Reflector", "Pyth"}) =>
            create_market_check(admin, QUESTION, OUTCOMES, d, oc).err
                \in {"InvalidConfig", "InvalidThreshold", "InvalidOracleFeed"}

\* C27: the stored admin address is changed only by an invocation that the
\* current stored admin has authenticated: an invocation whose authentications
\* do not include the stored admin leaves the stored admin as it is.
C27_AdminChangedOnlyByAdmin ==
    [][\A auth \in AuthSets :
           (~require_auth(auth, admin) /\ Invocation(auth)) => admin' = admin]_vars

\* C28: every state-mutating entry point requires its acting address (admin
\* or user) to authenticate before any validation or state change: an
\* invocation that its acting address did not authenticate, or that nobody
\* authenticated, changes nothing.
C28_ActingAddressAuthenticates ==
    [][\A auth \in AuthSets, m \in MarketIds :
           /\ \A u \in Voters :
                  (/\ ~require_auth(auth, u)
                   /\ \/ Invoke_claim_winnings(auth, u, m)
                      \/ Invoke_process_winnings_claim(auth, u, m))
                      => UNCHANGED vars
           /\ \A a \in Addresses :
                  (/\ ~require_auth(auth, a)
                   /\ \/ Invoke_collect_fees(auth, a, m)
                      \/ \E o \in OracleOutcomes :
                             Invoke_resolve_market_manual(auth, a, m, o)
                      \/ \E n \in Addresses : Invoke_update_admin(auth, a, n))
                      => UNCHANGED vars
           /\ (/\ auth = {}
               /\ \/ Invoke_resolve_market(auth, m)
                  \/ \E n \in Addresses : Invoke_initialize_with_config(auth, n))
                  => UNCHANGED vars]_vars

\* C29: after a market has been created, its end_time changes only through a
\* successful extend_market_duration call by the admin on that market: every
\* other step leaves the end_time of every stored market as it was, unless it
\* is the rollback of a failed invocation.
C29_EndTimeOnlyByExtension ==
    [][\A m \in DOMAIN markets \cap DOMAIN markets' :
           markets'[m].end_time # markets[m].end_time =>
               /\ stack # <<>>
               /\ \/ /\ Top.op = "extend_market_duration"
                     /\ Top.market = m
                     /\ Top.caller = admin
                     /\ stack' = Pop
                     /\ markets'[m].end_time > markets[m].end_time
                  \/ /\ stack' = Pop
                     /\ markets' = Top.saved.markets]_vars

\* C30: an operation that fails with a validation error has made no storage
\* write and no external call.  No invocation whose checks answer an error
\* reaches its external call or changes any stored value, for create_market,
\* claim_winnings, collect_fees, distribute_fees_to_multiple_parties and
\* refund_fee_on_error; and the guard cells a guarded entry point sets around
\* a wrapped operation that fails are back at their values when it returns.
C30_FailedValidationChangesNothing ==
    /\ [](protect_external_call(guard, FALSE).gs = guard)
    /\ [][/\ (Len(stack') > Len(stack) /\ Top'.op = "create_market") =>
                 \A a \in Addresses, q \in Questions, os \in OutcomeLists,
                    d \in AnyDurationDays, oc \in OracleConfigs :
                     create_market_check(a, q, os, d, oc).err # OK =>
                         ~create_market(a, q, os, d, oc)
          /\ vars' # vars =>
                 /\ \A u \in Voters, m \in MarketIds :
                        claim_winnings_result(u, m) # OK => ~claim_winnings(u, m)
                 /\ \A a \in Addresses, m \in MarketIds :
                        collect_fees_check(a, m).err # OK => ~collect_fees(a, m)
                 /\ \A a \in Addresses, m \in MarketIds, dist \in Distributions :
                        distribute_fees_to_multiple_parties_check(a, m, dist).err # OK
                            => ~distribute_fees_to_multiple_parties(a, m, dist)
                 /\ \A m \in MarketIds, amt \in RefundAmounts, a \in Addresses :
                        amt <= 0 => ~refund_fee_on_error(m, amt, a)]_vars

\* Fees of m1 have been collected and distributed and a refund has been paid;
\* in that state a distribution with a zero amount, a refund of 0 and a second
\* collect_fees are each answered with an error.
C30_Witness ==
    /\ stack = <<>>
    /\ Len(dist_hist) > 0
    /\ Len(fee_ref) > 0
    /\ refund_a.total > 0
    /\ distribute_fees_to_multiple_parties_check(admin, "m1", [a \in {"adm"} |-> 0]).err
           = "InvalidInput"
    /\ collect_fees_check(admin, "m1").err = "FeeAlreadyCollected"


\* C31: no operation modifies a market's stored record while a guarded
\* operation on that market is in flight: in every step that leaves a guarded
\* invocation paused at its external call, the stored record of that
\* invocation's market is what it was before the step.
C31_MarketStableWhileGuardedInFlight ==
    [][\A i \in GuardedInFlight :
           (/\ i <= Len(stack')
            /\ stack'[i] = stack[i]
            /\ stack[i].market \in DOMAIN markets \cap DOMAIN markets')
               => markets'[stack[i].market] = markets[stack[i].market]]_vars


\* C32: calculate_platform_fee fails with NoFeesToCollect when total_staked is
\* 0; otherwise the fee is total_staked * 2 / 100 with truncating division
\* (total_staked / 50 rounded down), it fails with InsufficientStake when that
\* is below MIN_FEE_AMOUNT and returns it otherwise; for total_staked =
\* 1_000_000_000 it returns 20_000_000; and the fee collect_fees transfers is
\* that amount.
C32_PlatformFee ==
    /\ \A m \in DOMAIN markets :
           LET t == markets[m].total_staked
               r == calculate_platform_fee(markets[m])
           IN  /\ t = 0 => r.err = "NoFeesToCollect"
               /\ (t # 0 /\ t \div 50 < MIN_FEE_AMOUNT) => r.err = "InsufficientStake"
               /\ t \div 50 >= MIN_FEE_AMOUNT => r = Ok(t \div 50)
               /\ t = 1000000000 => r = Ok(20000000)
    /\ \A i \in 1..Len(stack) :
           stack[i].op = "collect_fees" =>
               stack[i].amount = stack[i].snap.total_staked \div 50

\* The fee of a market with total_staked 1_000_000_000 was collected:
\* 20_000_000 were transferred.
C32_Witness ==
    /\ stack = <<>>
    /\ "m1" \in DOMAIN markets
    /\ markets["m1"].total_staked = 1000000000
    /\ markets["m1"].fee_collected
    /\ fee_paid["m1"] = 20000000
    /\ calculate_platform_fee(markets["m1"]) = Ok(20000000)


\* C33: calculate_dynamic_fee returns 80% of the base platform fee when
\* total_staked is at or above the large-market threshold (1_000_000_000 in
\* the function), 90% when it is at or above the medium-market threshold
\* (100_000_000), 100% otherwise, and never less than MIN_FEE_AMOUNT.
C33_DynamicFeeTiers ==
    \A m \in DOMAIN markets :
        LET t    == markets[m].total_staked
            base == calculate_platform_fee(markets[m])
            r    == calculate_dynamic_fee(markets[m])
            pct  == IF t >= 1000000000 THEN 80
                    ELSE IF t >= 100000000 THEN 90
                    ELSE 100
            fee  == MulDiv(base.val, pct, 100)
        IN  base.err = OK =>
                /\ r.err = OK
                /\ r.val >= MIN_FEE_AMOUNT
                /\ r.val = IF fee < MIN_FEE_AMOUNT THEN MIN_FEE_AMOUNT ELSE fee


C35_PayoutAsTestAsserts ==
    \A i \in 1..Len(stack) :
        (/\ stack[i].op = "calculate_user_payout_after_fees"
         /\ stack[i].returned
         /\ stack[i].user_stake = <<1, 0>>
         /\ stack[i].winning_total = <<5, 0>>
         /\ stack[i].total_pool = <<10, 0>>) =>
            /\ stack[i].result.err = OK
            /\ stack[i].result.val = <<49, 0>>


\* C40: collect_fees called by the stored admin succeeds for every resolved
\* market with fee_collected false and total_staked >= FEE_COLLECTION_THRESHOLD,
\* however large total_staked is, provided the token transfer succeeds.
C40_CollectFeesSucceedsOnLargeMarkets ==
    \A m \in DOMAIN markets :
        (/\ stack = <<>>
         /\ admin # NONE
         /\ markets[m].winning_outcome # NONE
         /\ ~markets[m].fee_collected
         /\ ~I128_lt(markets[m].total_staked, I128(FEE_COLLECTION_THRESHOLD))) =>
            collect_fees_check_i128(admin, m).err = OK


\* C39: for every winning user, process_winnings_claim returns exactly the
\* amount calculate_user_payout_after_fees(user_stake, winning_total,
\* total_staked) returns for the same market.
C39_ClaimPaysCalculatorAmount ==
    \A m \in DOMAIN markets : \A u \in DOMAIN markets[m].votes :
        (/\ markets[m].winning_outcome # NONE
         /\ markets[m].votes[u] = markets[m].winning_outcome
         /\ winning_total_of(markets[m], markets[m].winning_outcome) > 0) =>
            process_winnings_claim_payout(markets[m], u)
                = calculate_user_payout_after_fees(
                      MapGet(markets[m].stakes, u, 0),
                      winning_total_of(markets[m], markets[m].winning_outcome),
                      markets[m].total_staked).val


\* C36: resolve_market_manual called by the admin on an ended market with a
\* valid outcome sets the market's winning_outcome to the supplied outcome and
\* updates the market's state to resolved.
C36_ManualResolutionSetsOutcome ==
    [][\A m \in DOMAIN markets : \A o \in Outcomes :
          (/\ admin # NONE
           /\ now >= markets[m].end_time
           /\ resolve_market_manual(admin, m, o)) =>
              /\ m \in DOMAIN markets'
              /\ markets'[m].winning_outcome = o
              /\ markets'[m].state = "Resolved"]_vars


\* C37: in every reachable state the call-depth counter is 0 when the global
\* guard status is NotEntered and 1 when it is Entered, the status is Entered
\* exactly when some guard is active, and the counter never exceeds 1.
C37_CounterMatchesStatus ==
    /\ guard.status = REENTRANCY_NOT_ENTERED => guard.count = 0
    /\ guard.status = REENTRANCY_ENTERED => guard.count = 1
    /\ guard.status = REENTRANCY_ENTERED <=> (\E i \in 1..Len(stack) : stack[i].is_active)
    /\ guard.count <= 1


\* C38: every protect_external_call that acquired the guard returns with the
\* global guard status NotEntered, whether the wrapped operation succeeds,
\* fails, or itself attempts a nested guarded call: the step in which the
\* guarded invocation on top of the stack returns or panics leaves the status
\* NotEntered; a call that finds the guard free leaves it NotEntered for a
\* succeeded and for a failed operation; and a nested call attempted while
\* the guard is held is rejected without touching the guard, after which the
\* holder's after_external_call still leaves it NotEntered.
C38_GuardReleasedOnReturn ==
    [][/\ (stack # <<>> /\ Top.is_active /\ stack' = Pop) =>
              guard'.status = REENTRANCY_NOT_ENTERED
       /\ protect_external_call_enter(guard).err = OK =>
              \A success \in BOOLEAN :
                  protect_external_call(guard, success).gs.status
                      = REENTRANCY_NOT_ENTERED
       /\ (stack # <<>> /\ Top.is_active) =>
              \A nested \in BOOLEAN, success \in BOOLEAN :
                  LET n == protect_external_call(guard, nested)
                      a == after_external_call(n.gs, Top.is_active, success)
                  IN  /\ n.err = "ReentrancyAttack"
                      /\ a.err = OK
                      /\ a.gs.status = REENTRANCY_NOT_ENTERED]_vars

\* The guarded fetch_oracle_result has returned from its oracle call with a
\* result, and the guard is free again.
C38_Witness ==
    /\ stack = <<>>
    /\ "m1" \in DOMAIN markets
    /\ markets["m1"].oracle_result # NONE
    /\ guard = [status |-> REENTRANCY_NOT_ENTERED, count |-> 0]

====
